---- MODULE Spec2Model ----
(***************************************************************************)
(* A model of the CADES travel-time comparison scripts:                    *)
(*   datafiles.py                        the file catalog                  *)
(*   demo_sjoin_portal_inrix_meta.py     direction table, crosswalk join   *)
(*   demo_create_joined_timeseries.py    timestamp normalisation, merge    *)
(* Text (file names, dictionary keys, timestamps) is a sequence of         *)
(* one-character strings, so that substring tests, suffixes and regular    *)
(* expressions are computed character by character as Python does.         *)
(***************************************************************************)
EXTENDS Integers, Sequences, FiniteSets, TLC

VARIABLES
    tree,       \* the directory tree on disk: existing directories and their entries
    yearsArg,   \* the years=(first, last) argument of PortalInrixDataFiles(...)
    status,     \* "unbuilt" | "built" | "FileNotFoundError": outcome of __init__
    cat,        \* the PortalInrixDataFiles object's attributes
    query,      \* the last get_* call made on the object
    result,     \* what that call returned or raised
    dirCall,    \* the arguments of the last standardize_direction call
    dirResult,  \* what it returned or raised
    tsCall,     \* the argument of the last normalize_timestamp call
    tsResult,   \* what it returned
    xIn,        \* the files the crosswalk script reads: stations, highways,
                \* the two probe shapefiles, the TMC identification table
    xPc,        \* the crosswalk script's position
    portal_stations_df,         \* later portal_gdf
    inrix_full_df,
    inrix_filtered_by_tmc,
    portal_inrix_spatial_join,
    mIn,        \* the files the merge script reads: the crosswalk CSV, the detector
                \* files of the two bounds, the probe data file
    mPc,        \* the merge script's position, or the statement that raised
    sjoined_portal_inrix_df,
    portal_data_df,
    inrix_data_df,
    portal_inrix_meta_df_filtered,
    inrix_data_filtered_df,
    portal_data_filtered_df,
    inrix_enriched,
    merged_df

catVars == <<tree, yearsArg, status, cat, query, result>>
dirVars == <<dirCall, dirResult>>
tsVars == <<tsCall, tsResult>>
xwVars == <<xIn, xPc, portal_stations_df, inrix_full_df, inrix_filtered_by_tmc,
            portal_inrix_spatial_join>>
mgVars == <<mIn, mPc, sjoined_portal_inrix_df, portal_data_df, inrix_data_df,
            portal_inrix_meta_df_filtered, inrix_data_filtered_df,
            portal_data_filtered_df, inrix_enriched, merged_df>>
vars == <<catVars, dirVars, tsVars, xwVars, mgVars>>

(***************************************************************************)
(* Text helpers                                                            *)
(***************************************************************************)

\* Python's  sub in s  on str
Contains(sub, s) ==
    \E i \in 0..(Len(s) - Len(sub)) : SubSeq(s, i + 1, i + Len(sub)) = sub

Digit(d) ==
    CASE d = 0 -> "0" [] d = 1 -> "1" [] d = 2 -> "2" [] d = 3 -> "3"
      [] d = 4 -> "4" [] d = 5 -> "5" [] d = 6 -> "6" [] d = 7 -> "7"
      [] d = 8 -> "8" [] d = 9 -> "9"

RECURSIVE Str(_)
\* Python's str(n) for n >= 0
Str(n) == IF n < 10 THEN <<Digit(n)>> ELSE Str(n \div 10) \o <<Digit(n % 10)>>

\* index of the last "." of a name, 0 when there is none (str.rfind, 1-based)
LastDot(name) ==
    LET dots == {i \in 1..Len(name) : name[i] = "."}
    IN  IF dots = {} THEN 0 ELSE CHOOSE i \in dots : \A j \in dots : j <= i

\* pathlib's PurePath.suffix: the text from the last dot, unless the dot is
\* the first or the last character of the name
Suffix(name) ==
    LET i == LastDot(name)
    IN  IF 1 < i /\ i < Len(name) THEN SubSeq(name, i, Len(name)) ELSE <<>>

Range(s) == {s[i] : i \in DOMAIN s}

\* dict[k] = v
Put(d, k, v) == [x \in DOMAIN d \cup {k} |-> IF x = k THEN v ELSE d[x]]

EmptyDict == [x \in {} |-> <<>>]

(***************************************************************************)
(* Names used by datafiles.py                                              *)
(***************************************************************************)
CADES_INRIX == <<"C","A","D","E","S","_","I","N","R","I","X">>
CADES_PORTAL == <<"C","A","D","E","S","_","P","O","R","T","A","L">>
INRIX_CADES == <<"I","N","R","I","X","_","C","A","D","E","S">>
TMC_Identification == <<"T","M","C","_","I","d","e","n","t","i","f","i","c","a","t","i","o","n">>
DotCsv == <<".","c","s","v">>
NB == <<"N","B">>
SB == <<"S","B">>
EB == <<"E","B">>
WB == <<"W","B">>
I5Corridor == <<"I","-","5"," ","C","o","r","r","i","d","o","r">>
I205Corridor == <<"I","-","2","0","5"," ","C","o","r","r","i","d","o","r">>
SR14Corridor == <<"S","R","-","1","4"," ","C","o","r","r","i","d","o","r">>

\* a path is the sequence of its components below data_root
PathJoin(dir, name) == Append(dir, name)

inrix_dir == <<CADES_INRIX>>
portal_dir == <<CADES_PORTAL>>
portal_meta_dir == PathJoin(portal_dir, <<"m","e","t","a","d","a","t","a">>)

\* year_dir = self.inrix_dir / f"INRIX_CADES_{year}"
YearDir(year) == PathJoin(inrix_dir, INRIX_CADES \o <<"_">> \o year)

portal_corridors ==
    [c \in {"I5", "I205", "SR14"} |->
        CASE c = "I5"   -> [dirpath |-> PathJoin(portal_dir, I5Corridor),
                            directions |-> <<NB, SB>>]
          [] c = "I205" -> [dirpath |-> PathJoin(portal_dir, I205Corridor),
                            directions |-> <<NB, SB>>]
          [] c = "SR14" -> [dirpath |-> PathJoin(portal_dir, SR14Corridor),
                            directions |-> <<EB, WB>>]]

DefaultFirstYear == 2019
DefaultLastYear == 2025

(***************************************************************************)
(* The directory trees the catalog is built over                           *)
(***************************************************************************)
MaxEntries == 2       \* directory entries in the whole tree
MaxMissingDirs == 1   \* dataset directories absent from the tree

RECURSIVE SubsetsUpTo(_, _)
SubsetsUpTo(S, n) ==
    IF n = 0 THEN {{}}
    ELSE LET P == SubsetsUpTo(S, n - 1)
         IN  P \cup {p \cup {x} : p \in P, x \in S}

\* the year directories a tree may hold
TreeYears == {2021, 2024}

CorridorDirs == {portal_corridors[c].dirpath : c \in DOMAIN portal_corridors}
YearDirs == {YearDir(Str(y)) : y \in TreeYears}
AllDirs == CorridorDirs \cup YearDirs

NB_2021 == <<"N","B","_","2","0","2","1",".","c","s","v">>
NB_SB_2021_2024 == <<"N","B","_","S","B","_","2","0","2","1","_","2","0","2","4",".","c","s","v">>
EB_2024 == <<"E","B","_","2","0","2","4",".","c","s","v">>
WB_2021 == <<"W","B","_","2","0","2","1">>

Entry(dir, name, isFile) == [dir |-> dir, name |-> name, isFile |-> isFile]

\* the entries a tree may hold: data files named by direction and year (one
\* naming two directions and two years), a subdirectory, and per probe year
\* the data file, the identification file, a file carrying both tags and a
\* file that is no .csv
Placements ==
    LET i5 == portal_corridors["I5"].dirpath
        i205 == portal_corridors["I205"].dirpath
        sr14 == portal_corridors["SR14"].dirpath
        y21 == YearDir(Str(2021))
        y24 == YearDir(Str(2024))
    IN  { Entry(i5, NB_2021, TRUE), Entry(i5, NB_SB_2021_2024, TRUE),
          Entry(i5, EB_2024, TRUE), Entry(i205, NB_SB_2021_2024, TRUE),
          Entry(sr14, EB_2024, TRUE), Entry(sr14, WB_2021, FALSE),
          Entry(y21, INRIX_CADES \o DotCsv, TRUE),
          Entry(y21, TMC_Identification \o DotCsv, TRUE),
          Entry(y21, INRIX_CADES \o <<"_">> \o TMC_Identification \o DotCsv, TRUE),
          Entry(y21, INRIX_CADES \o <<".","t","x","t">>, TRUE),
          Entry(y24, INRIX_CADES \o DotCsv, TRUE),
          Entry(y24, TMC_Identification \o DotCsv, FALSE) }

Trees ==
    {[dirs |-> AllDirs \ m, entries |-> es] :
        m \in SubsetsUpTo(AllDirs, MaxMissingDirs),
        es \in SubsetsUpTo(Placements, MaxEntries)}

WellFormed(t) == \A e \in t.entries : e.dir \in t.dirs

YearArgs == {<<DefaultFirstYear, DefaultLastYear>>, <<2021, 2022>>}

\* injective sequences over S: the orders in which a listing may come
Perms(S) ==
    {s \in [1..Cardinality(S) -> S] : \A i, j \in 1..Cardinality(S) : i # j => s[i] # s[j]}

\* Path.iterdir(): the entries of one directory, in the order the listing gives
IterDir(order, dir) == SelectSeq(order, LAMBDA e : e.dir = dir)

(***************************************************************************)
(* PortalInrixDataFiles.__init__                                           *)
(***************************************************************************)

YearsOf_Inclusive(first, last) == [i \in 1..(last - first + 1) |-> Str(first + i - 1)]

\* self.years = [str(year) for year in range(*years)]
YearsOf(first, last) == [i \in 1..(last - first) |-> Str(first + i - 1)]

\* the body of the loop over year_dir.iterdir()
InrixClassify(acc, file) ==
    IF file.isFile /\ Suffix(file.name) = DotCsv
    THEN IF Contains(INRIX_CADES, file.name)
         THEN Put(acc, "data", PathJoin(file.dir, file.name))
         ELSE IF Contains(TMC_Identification, file.name)
              THEN Put(acc, "meta", PathJoin(file.dir, file.name))
              ELSE acc
    ELSE acc

RECURSIVE ScanInrixDir(_, _)
ScanInrixDir(acc, ls) ==
    IF ls = <<>> THEN acc ELSE ScanInrixDir(InrixClassify(acc, Head(ls)), Tail(ls))

_setup_inrix_data_files(t, order, years) ==
    [year \in Range(years) |->
        IF YearDir(year) \in t.dirs
        THEN ScanInrixDir(EmptyDict, IterDir(order, YearDir(year)))
        ELSE EmptyDict]

\* the three conditions under which a file is appended to a bucket
FileMatches_NoIsFile(file, year, direction) ==
    Contains(year, file.name) /\ Contains(direction, file.name)

FileMatches(file, year, direction) ==
    file.isFile /\ Contains(year, file.name) /\ Contains(direction, file.name)

\* one file of the corridor's listing: the loops over years and directions
AppendFile(buckets, file) ==
    [year \in DOMAIN buckets |->
        [direction \in DOMAIN buckets[year] |->
            IF FileMatches(file, year, direction)
            THEN Append(buckets[year][direction], PathJoin(file.dir, file.name))
            ELSE buckets[year][direction]]]

RECURSIVE FillCorridor(_, _)
FillCorridor(buckets, ls) ==
    IF ls = <<>> THEN buckets ELSE FillCorridor(AppendFile(buckets, Head(ls)), Tail(ls))

\* dirpath.iterdir() raises FileNotFoundError for a directory that is absent
PortalScanRaises(t) ==
    \E c \in DOMAIN portal_corridors : portal_corridors[c].dirpath \notin t.dirs

_setup_portal_data_files(t, order, years) ==
    [corridor \in DOMAIN portal_corridors |->
        FillCorridor(
            [year \in Range(years) |->
                [direction \in Range(portal_corridors[corridor].directions) |-> <<>>]],
            IterDir(order, portal_corridors[corridor].dirpath))]

portal_meta_files ==
    [name \in {"detectors", "highways", "stations"} |->
        PathJoin(portal_meta_dir,
            CASE name = "detectors" -> <<"d","e","t","e","c","t","o","r","s">> \o DotCsv
              [] name = "highways" -> <<"h","i","g","h","w","a","y","s">> \o DotCsv
              [] name = "stations" -> <<"s","t","a","t","i","o","n","s">> \o DotCsv)]

NoCat ==
    [years |-> <<>>, inrix_data_files |-> EmptyDict,
     portal_meta_files |-> EmptyDict, portal_data_files |-> EmptyDict]

NoQuery == [op |-> "none", args |-> <<>>]
NoResult == [err |-> "none", val |-> <<>>]

Build ==
    /\ status = "unbuilt"
    /\ \E order \in Perms(tree.entries) :
         LET years == YearsOf(yearsArg[1], yearsArg[2])
         IN  IF PortalScanRaises(tree)
             THEN /\ status' = "FileNotFoundError"
                  /\ cat' = NoCat
             ELSE /\ status' = "built"
                  /\ cat' = [years |-> years,
                             inrix_data_files |-> _setup_inrix_data_files(tree, order, years),
                             portal_meta_files |-> portal_meta_files,
                             portal_data_files |-> _setup_portal_data_files(tree, order, years)]
    /\ UNCHANGED <<tree, yearsArg, query, result, dirVars, tsVars, xwVars, mgVars>>

(***************************************************************************)
(* The accessors.  A dictionary subscript with a missing key raises        *)
(* KeyError; a returned value is wrapped in a one-element tuple.           *)
(***************************************************************************)
Returned(v) == [err |-> "none", val |-> <<v>>]
KeyError == [err |-> "KeyError", val |-> <<>>]

get_portal_meta(c, name) ==
    IF name \in DOMAIN c.portal_meta_files
    THEN Returned(c.portal_meta_files[name]) ELSE KeyError

get_portal_data(c, corridor, year, direction) ==
    IF corridor \notin DOMAIN c.portal_data_files THEN KeyError
    ELSE IF year \notin DOMAIN c.portal_data_files[corridor] THEN KeyError
    ELSE IF direction \notin DOMAIN c.portal_data_files[corridor][year] THEN KeyError
    ELSE Returned(c.portal_data_files[corridor][year][direction])

get_inrix(c, year, name) ==
    IF year \notin DOMAIN c.inrix_data_files THEN KeyError
    ELSE IF name \notin DOMAIN c.inrix_data_files[year] THEN KeyError
    ELSE Returned(c.inrix_data_files[year][name])

get_inrix_data(c, year) == get_inrix(c, year, "data")

get_inrix_meta(c, year) == get_inrix(c, year, "meta")

\* the keys the accessors are called with
QueryCorridors == {"I5", "I205", "SR14", "I84"}
QueryYears == {Str(y) : y \in {2018, 2021, 2024, 2025}}
QueryDirections == {NB, SB, EB, WB}
QueryMetaNames == {"detectors", "highways", "stations", "segments"}

GetPortalMeta ==
    /\ status = "built"
    /\ query = NoQuery
    /\ \E name \in QueryMetaNames :
         /\ query' = [op |-> "get_portal_meta", args |-> <<name>>]
         /\ result' = get_portal_meta(cat, name)
    /\ UNCHANGED <<tree, yearsArg, status, cat, dirVars, tsVars, xwVars, mgVars>>

GetPortalData ==
    /\ status = "built"
    /\ query = NoQuery
    /\ \E corridor \in QueryCorridors, year \in QueryYears, direction \in QueryDirections :
         /\ query' = [op |-> "get_portal_data", args |-> <<corridor, year, direction>>]
         /\ result' = get_portal_data(cat, corridor, year, direction)
    /\ UNCHANGED <<tree, yearsArg, status, cat, dirVars, tsVars, xwVars, mgVars>>

GetInrixData ==
    /\ status = "built"
    /\ query = NoQuery
    /\ \E year \in QueryYears :
         /\ query' = [op |-> "get_inrix_data", args |-> <<year>>]
         /\ result' = get_inrix_data(cat, year)
    /\ UNCHANGED <<tree, yearsArg, status, cat, dirVars, tsVars, xwVars, mgVars>>

GetInrixMeta ==
    /\ status = "built"
    /\ query = NoQuery
    /\ \E year \in QueryYears :
         /\ query' = [op |-> "get_inrix_meta", args |-> <<year>>]
         /\ result' = get_inrix_meta(cat, year)
    /\ UNCHANGED <<tree, yearsArg, status, cat, dirVars, tsVars, xwVars, mgVars>>

\* the caller takes the value (or handles the KeyError); the object is as it was
Discard ==
    /\ query # NoQuery
    /\ query' = NoQuery
    /\ result' = NoResult
    /\ UNCHANGED <<tree, yearsArg, status, cat, dirVars, tsVars, xwVars, mgVars>>

NoCall == [made |-> FALSE]

\* the parts of the state a specification does not use stay as they start
CatIdle ==
    /\ tree = [dirs |-> {}, entries |-> {}]
    /\ yearsArg = <<DefaultFirstYear, DefaultLastYear>>
    /\ status = "unbuilt"
    /\ cat = NoCat
    /\ query = NoQuery
    /\ result = NoResult

DirIdle == dirCall = NoCall /\ dirResult = NoResult

TsIdle == tsCall = NoCall /\ tsResult = [kind |-> "None", chars |-> <<>>]

XwIdle ==
    /\ xIn = [stations |-> <<>>, highways |-> <<>>, oregon |-> <<>>, clark |-> <<>>,
              tmc_identification |-> <<>>]
    /\ xPc = "idle"
    /\ portal_stations_df = <<>>
    /\ inrix_full_df = <<>>
    /\ inrix_filtered_by_tmc = <<>>
    /\ portal_inrix_spatial_join = <<>>

MgIdle ==
    /\ mIn = [crosswalk |-> <<>>, bound_1_files |-> <<>>, bound_2_files |-> <<>>,
              inrix |-> <<>>]
    /\ mPc = "idle"
    /\ sjoined_portal_inrix_df = <<>>
    /\ portal_data_df = <<>>
    /\ inrix_data_df = <<>>
    /\ portal_inrix_meta_df_filtered = <<>>
    /\ inrix_data_filtered_df = <<>>
    /\ portal_data_filtered_df = <<>>
    /\ inrix_enriched = <<>>
    /\ merged_df = <<>>

CatalogInit ==
    /\ tree \in {t \in Trees : WellFormed(t)}
    /\ yearsArg \in YearArgs
    /\ status = "unbuilt"
    /\ cat = NoCat
    /\ query = NoQuery
    /\ result = NoResult
    /\ DirIdle
    /\ TsIdle
    /\ XwIdle
    /\ MgIdle

CatalogNext ==
    Build \/ GetPortalMeta \/ GetPortalData \/ GetInrixData \/ GetInrixMeta \/ Discard

SpecCatalog == CatalogInit /\ [][CatalogNext]_vars

(***************************************************************************)
(* Catalog claims                                                          *)
(***************************************************************************)
NoDuplicates(s) == \A i, j \in DOMAIN s : i # j => s[i] # s[j]

\* the year strings of the half-open range [first, last) given at construction
YearStringsInRange == {Str(n) : n \in yearsArg[1]..(yearsArg[2] - 1)}

\* the regular files of a corridor's directory whose name holds both substrings
MatchingFiles(corridor, year, direction) ==
    {PathJoin(e.dir, e.name) :
        e \in {x \in tree.entries :
                 /\ x.dir = portal_corridors[corridor].dirpath
                 /\ x.isFile
                 /\ Contains(year, x.name)
                 /\ Contains(direction, x.name)}}

ValidPortalKey(corridor, year, direction) ==
    /\ corridor \in {"I5", "I205", "SR14"}
    /\ year \in YearStringsInRange
    /\ direction \in Range(portal_corridors[corridor].directions)

\* C1: once the catalog is built, get_portal_data on every valid (corridor,
\* year, direction) key returns, without error, a list holding exactly the regular
\* files of the corridor's directory whose name contains the year and the
\* direction, each once; the list is empty when none matches.
C1_PortalDataExact ==
    status = "built" =>
        /\ \A corridor \in DOMAIN portal_corridors, year \in YearStringsInRange,
              direction \in QueryDirections :
             (query = NoQuery /\ ValidPortalKey(corridor, year, direction)) =>
                LET r == get_portal_data(cat, corridor, year, direction)
                IN  /\ r.err = "none"
                    /\ NoDuplicates(r.val[1])
                    /\ Range(r.val[1]) = MatchingFiles(corridor, year, direction)
        /\ (query.op = "get_portal_data"
              /\ ValidPortalKey(query.args[1], query.args[2], query.args[3])) =>
                /\ result.err = "none"
                /\ Range(result.val[1])
                     = MatchingFiles(query.args[1], query.args[2], query.args[3])

\* a call answered with a file that sits in a second bucket too, on a catalog
\* that also has an empty bucket
C1_Witness ==
    /\ status = "built"
    /\ yearsArg = <<DefaultFirstYear, DefaultLastYear>>
    /\ query.op = "get_portal_data"
    /\ query.args = <<"I5", Str(2021), NB>>
    /\ result.err = "none"
    /\ PathJoin(portal_corridors["I5"].dirpath, NB_SB_2021_2024) \in Range(result.val[1])
    /\ PathJoin(portal_corridors["I5"].dirpath, NB_SB_2021_2024)
         \in Range(get_portal_data(cat, "I5", Str(2024), SB).val[1])
    /\ get_portal_data(cat, "SR14", Str(2021), EB) = Returned(<<>>)

\* the keys whose directory is absent from the tree hold no file
AbsentDirsHoldNothing ==
    /\ \A corridor \in DOMAIN portal_corridors, year \in YearStringsInRange,
          direction \in QueryDirections :
         (ValidPortalKey(corridor, year, direction)
            /\ portal_corridors[corridor].dirpath \notin tree.dirs) =>
              get_portal_data(cat, corridor, year, direction) = Returned(<<>>)
    /\ \A year \in YearStringsInRange :
         YearDir(year) \notin tree.dirs =>
              /\ get_inrix_data(cat, year) = KeyError
              /\ get_inrix_meta(cat, year) = KeyError

\* C2: the build never fails because a probe year directory or a detector
\* corridor directory is absent; it completes, and the keys under the absent
\* directory have no files.
C2_BuildToleratesMissingDirs ==
    status # "unbuilt" => (status = "built" /\ AbsentDirsHoldNothing)

\* no regular .csv file of the year's directory is classified under the name
NoInrixFile(year, name) ==
    ~ \E e \in tree.entries :
        /\ e.dir = YearDir(year)
        /\ e.isFile
        /\ Suffix(e.name) = DotCsv
        /\ IF name = "data" THEN Contains(INRIX_CADES, e.name)
           ELSE ~Contains(INRIX_CADES, e.name) /\ Contains(TMC_Identification, e.name)

OutsideCatalog(q) ==
    CASE q.op = "get_portal_data" -> ~ValidPortalKey(q.args[1], q.args[2], q.args[3])
      [] q.op = "get_portal_meta" -> q.args[1] \notin {"detectors", "highways", "stations"}
      [] q.op = "get_inrix_data" ->
            q.args[1] \notin YearStringsInRange \/ NoInrixFile(q.args[1], "data")
      [] q.op = "get_inrix_meta" ->
            q.args[1] \notin YearStringsInRange \/ NoInrixFile(q.args[1], "meta")
      [] OTHER -> FALSE

\* C3: every accessor call with a key outside the catalog (unknown corridor,
\* a direction that is not the corridor's, a year outside [first, last), an
\* unknown metadata name, a probe year with no matching file) raises KeyError
\* and returns no path.
C3_OutsideKeyRaises ==
    (query # NoQuery /\ OutsideCatalog(query)) => result = KeyError

\* the first year past the default range is asked for and refused
C3_Witness ==
    /\ yearsArg = <<DefaultFirstYear, DefaultLastYear>>
    /\ query = [op |-> "get_portal_data", args |-> <<"I5", Str(2025), NB>>]
    /\ result = KeyError
    /\ get_portal_data(cat, "I5", Str(2024), NB).err = "none"

(***************************************************************************)
(* standardize_direction (demo_sjoin_portal_inrix_meta.py)                 *)
(* A Python value is a str, None, or the float NaN that pandas puts where  *)
(* a CSV cell is empty or a left join finds no match.                      *)
(***************************************************************************)
PyStr(s) == [kind |-> "str", chars |-> s]
PyNone == [kind |-> "None", chars |-> <<>>]
PyNaN == [kind |-> "nan", chars |-> <<>>]

Raised(e) == [err |-> e, val |-> <<>>]

LowerCase == <<"a","b","c","d","e","f","g","h","i","j","k","l","m",
               "n","o","p","q","r","s","t","u","v","w","x","y","z">>
UpperCase == <<"A","B","C","D","E","F","G","H","I","J","K","L","M",
               "N","O","P","Q","R","S","T","U","V","W","X","Y","Z">>

UpperChar(c) ==
    IF \E i \in DOMAIN LowerCase : LowerCase[i] = c
    THEN UpperCase[CHOOSE i \in DOMAIN LowerCase : LowerCase[i] = c]
    ELSE c

\* str.upper()
Upper(s) == [i \in DOMAIN s |-> UpperChar(s[i])]

T_NORTHBOUND == <<"N","O","R","T","H","B","O","U","N","D">>
T_SOUTHBOUND == <<"S","O","U","T","H","B","O","U","N","D">>
T_WESTBOUND == <<"W","E","S","T","B","O","U","N","D">>
T_EASTBOUND == <<"E","A","S","T","B","O","U","N","D">>
T_NORTH == <<"N","O","R","T","H">>
T_SOUTH == <<"S","O","U","T","H">>
T_WEST == <<"W","E","S","T">>
T_EAST == <<"E","A","S","T">>
T_NORT == <<"N","O","R","T">>
T_CONST == <<"C","O","N","S","T">>
T_JB == <<"J","B">>
T_ZB == <<"Z","B">>

\* the value None stored in a table, or returned by dict.get for a missing key
None == "None"

direction_map ==
    [k \in {T_NORTHBOUND, T_SOUTHBOUND, T_WESTBOUND, T_EASTBOUND,
            T_NORTH, T_SOUTH, T_WEST, T_EAST, T_NORT, T_CONST} |->
        CASE k \in {T_NORTHBOUND, T_NORTH, T_NORT} -> "NORTH"
          [] k \in {T_SOUTHBOUND, T_SOUTH} -> "SOUTH"
          [] k \in {T_WESTBOUND, T_WEST} -> "WEST"
          [] k \in {T_EASTBOUND, T_EAST} -> "EAST"
          [] k = T_CONST -> None]

bound_map ==
    [k \in {NB, SB, WB, EB, T_JB, T_ZB} |->
        CASE k = NB -> "NORTH"
          [] k = SB -> "SOUTH"
          [] k = WB -> "WEST"
          [] k = EB -> "EAST"
          [] k \in {T_JB, T_ZB} -> None]

\* dict.get(key): None for a missing key
DictGet(d, k) == IF k \in DOMAIN d THEN d[k] ELSE None

\* x.upper() exists on str only: None and float raise AttributeError
standardize_direction(direction, bound) ==
    IF direction.kind # "str" THEN Raised("AttributeError")
    ELSE LET std_direction == DictGet(direction_map, Upper(direction.chars))
         IN  IF std_direction = None /\ bound.kind # "None"
             THEN IF bound.kind # "str" THEN Raised("AttributeError")
                  ELSE Returned(DictGet(bound_map, Upper(bound.chars)))
             ELSE Returned(std_direction)

DirectionInputs ==
    {PyStr(c) : c \in {T_NORTHBOUND, T_SOUTHBOUND, T_WESTBOUND, T_EASTBOUND,
                       T_NORTH, T_SOUTH, T_WEST, T_EAST, T_NORT, T_CONST,
                       <<"n","o","r","t","h","b","o","u","n","d">>, <<"N","o","r","t","h">>, <<"c","o","n","s","t">>, <<"b","o","g","u","s">>, <<>>}}
    \cup {PyNone, PyNaN}

BoundInputs ==
    {PyStr(c) : c \in {NB, SB, WB, EB, T_JB, T_ZB, <<"n","b">>, <<"X","X">>, <<>>}}
    \cup {PyNone, PyNaN}

StandardizeDirection ==
    /\ \E direction \in DirectionInputs, bound \in BoundInputs :
         /\ dirCall' = [made |-> TRUE, direction |-> direction, bound |-> bound]
         /\ dirResult' = standardize_direction(direction, bound)
    /\ UNCHANGED <<catVars, tsVars, xwVars, mgVars>>

DirectionInit == CatIdle /\ DirIdle /\ TsIdle /\ XwIdle /\ MgIdle

DirectionNext == StandardizeDirection

SpecDirection == DirectionInit /\ [][DirectionNext]_vars

\* the shared enumeration: the code's None stands for UNKNOWN
DirectionEnum(v) == IF v = None THEN "UNKNOWN" ELSE v

\* C4: standardize_direction is total: for every raw direction (a string in
\* any case, the empty string, or a missing value) and every bound (a string
\* or missing) it returns one of NORTH, SOUTH, EAST, WEST, UNKNOWN and never
\* raises.
C4_Total ==
    dirCall.made =>
        /\ dirResult.err = "none"
        /\ DirectionEnum(dirResult.val[1]) \in {"NORTH", "SOUTH", "EAST", "WEST", "UNKNOWN"}

\* what the direction vocabulary gives for an upper-cased direction
VocabularyValue(k) ==
    CASE k \in {T_NORTHBOUND, T_NORTH, T_NORT} -> "NORTH"
      [] k \in {T_SOUTHBOUND, T_SOUTH} -> "SOUTH"
      [] k \in {T_WESTBOUND, T_WEST} -> "WEST"
      [] k \in {T_EASTBOUND, T_EAST} -> "EAST"
      [] k = T_CONST -> "UNKNOWN"

InVocabulary(k) ==
    k \in {T_NORTHBOUND, T_SOUTHBOUND, T_WESTBOUND, T_EASTBOUND,
           T_NORTH, T_SOUTH, T_WEST, T_EAST, T_NORT, T_CONST}

BoundValue(b) ==
    IF b.kind # "str" THEN "UNKNOWN"
    ELSE CASE b.chars = NB -> "NORTH"
           [] b.chars = SB -> "SOUTH"
           [] b.chars = EB -> "EAST"
           [] b.chars = WB -> "WEST"
           [] OTHER -> "UNKNOWN"

\* C5: the bound table is consulted only when the direction has no
\* case-insensitive match in the vocabulary: a direction in the vocabulary
\* decides the result whatever the bound (CONST gives UNKNOWN for every
\* bound), and otherwise NB/SB/EB/WB give NORTH/SOUTH/EAST/WEST and any other
\* bound, or none, gives UNKNOWN.  Stated for string directions and for
\* bounds that are absent or written in upper case.
C5_VocabularyDecides ==
    (/\ dirCall.made
     /\ dirCall.direction.kind = "str"
     /\ dirCall.bound.kind \in {"str", "None"}
     /\ Upper(dirCall.bound.chars) = dirCall.bound.chars) =>
        /\ dirResult.err = "none"
        /\ DirectionEnum(dirResult.val[1]) =
             IF InVocabulary(Upper(dirCall.direction.chars))
             THEN VocabularyValue(Upper(dirCall.direction.chars))
             ELSE BoundValue(dirCall.bound)

(***************************************************************************)
(* normalize_timestamp (demo_create_joined_timeseries.py) and the reading  *)
(* of a timestamp string as an instant                                     *)
(***************************************************************************)
IsDigit(c) == c \in {"0", "1", "2", "3", "4", "5", "6", "7", "8", "9"}

IsSign(c) == c \in {"-", "+"}

DigitVal(c) == CHOOSE d \in 0..9 : Digit(d) = c

RECURSIVE Num(_)
Num(s) == IF s = <<>> THEN 0 ELSE Num(SubSeq(s, 1, Len(s) - 1)) * 10 + DigitVal(s[Len(s)])

AllDigits(s) == \A i \in DOMAIN s : IsDigit(s[i])

\* the pattern ([-+]\d{2})$ : a sign and two digits at the end of the text
\* (text without line breaks)
EndsWithSignHH(s) ==
    /\ Len(s) >= 3
    /\ IsSign(s[Len(s) - 2])
    /\ IsDigit(s[Len(s) - 1])
    /\ IsDigit(s[Len(s)])

\* the pattern ([-+]\d{2}:\d{2})$
EndsWithSignHHMM(s) ==
    /\ Len(s) >= 6
    /\ IsSign(s[Len(s) - 5])
    /\ IsDigit(s[Len(s) - 4])
    /\ IsDigit(s[Len(s) - 3])
    /\ s[Len(s) - 2] = ":"
    /\ IsDigit(s[Len(s) - 1])
    /\ IsDigit(s[Len(s)])

Colon00 == <<":", "0", "0">>
Dot000000 == <<".", "0", "0", "0", "0", "0", "0">>

\* re.sub(r"([-+]\d{2})$", r"\1:00", timestamp)
normalize_timezone(timestamp) ==
    IF EndsWithSignHH(timestamp) THEN timestamp \o Colon00 ELSE timestamp

add_default_microseconds_AtEnd(timestamp) ==
    IF ~Contains(<<".">>, timestamp) /\ EndsWithSignHHMM(timestamp)
    THEN timestamp \o Dot000000
    ELSE timestamp

add_default_microseconds(timestamp) ==
    IF ~Contains(<<".">>, timestamp) /\ EndsWithSignHHMM(timestamp)
    THEN SubSeq(timestamp, 1, Len(timestamp) - 6) \o Dot000000
           \o SubSeq(timestamp, Len(timestamp) - 5, Len(timestamp))
    ELSE timestamp

\* pd.isna(timestamp) is true of None and of NaN
normalize_timestamp(timestamp) ==
    IF timestamp.kind # "str" THEN PyNone
    ELSE PyStr(add_default_microseconds(normalize_timezone(timestamp.chars)))

(* Reading a timestamp: YYYY-MM-DD, "T" or a space, HH:MM:SS, an optional   *)
(* fraction of one to six digits, an optional offset (Z, +HH, +HHMM,        *)
(* +HH:MM).  Time is counted in seconds from 2000-01-01T00:00:00 plus       *)
(* microseconds; years before 2000 and finer fractions do not occur here.   *)
IsLeap(y) == (y % 4 = 0 /\ y % 100 # 0) \/ y % 400 = 0

DaysBeforeYear(y) == (y - 2000) * 365 + Cardinality({k \in 2000..(y - 1) : IsLeap(k)})

DaysBeforeMonth(y, m) ==
    <<0, 31, 59, 90, 120, 151, 181, 212, 243, 273, 304, 334>>[m]
      + (IF m > 2 /\ IsLeap(y) THEN 1 ELSE 0)

DaysInMonth(y, m) ==
    IF m = 2 THEN (IF IsLeap(y) THEN 29 ELSE 28)
    ELSE IF m \in {4, 6, 9, 11} THEN 30 ELSE 31

SecondsOfCivil(y, m, d, hh, mm, ss) ==
    (DaysBeforeYear(y) + DaysBeforeMonth(y, m) + d - 1) * 86400 + hh * 3600 + mm * 60 + ss

Unparsed == [ok |-> FALSE, aware |-> FALSE, sec |-> 0, micro |-> 0, offset |-> 0]

\* the length of the run of digits of s that starts at position i
RECURSIVE DigitRun(_, _)
DigitRun(s, i) == IF i <= Len(s) /\ IsDigit(s[i]) THEN 1 + DigitRun(s, i + 1) ELSE 0

Pow10(n) == CASE n = 0 -> 1 [] n = 1 -> 10 [] n = 2 -> 100 [] n = 3 -> 1000
              [] n = 4 -> 10000 [] n = 5 -> 100000 [] n = 6 -> 1000000

\* the offset text after the time: minutes east of UTC, or no offset (naive)
ParseOffset(o) ==
    IF o = <<>> THEN [ok |-> TRUE, aware |-> FALSE, minutes |-> 0]
    ELSE IF o = <<"Z">> THEN [ok |-> TRUE, aware |-> TRUE, minutes |-> 0]
    ELSE IF ~IsSign(o[1]) THEN [ok |-> FALSE, aware |-> FALSE, minutes |-> 0]
    ELSE LET sgn == IF o[1] = "-" THEN -1 ELSE 1
             body == Tail(o)
         IN  IF Len(body) = 2 /\ AllDigits(body)
             THEN [ok |-> TRUE, aware |-> TRUE, minutes |-> sgn * Num(body) * 60]
             ELSE IF Len(body) = 4 /\ AllDigits(body)
             THEN [ok |-> TRUE, aware |-> TRUE,
                   minutes |-> sgn * (Num(SubSeq(body, 1, 2)) * 60 + Num(SubSeq(body, 3, 4)))]
             ELSE IF Len(body) = 5 /\ body[3] = ":" /\ AllDigits(SubSeq(body, 1, 2))
                       /\ AllDigits(SubSeq(body, 4, 5))
             THEN [ok |-> TRUE, aware |-> TRUE,
                   minutes |-> sgn * (Num(SubSeq(body, 1, 2)) * 60 + Num(SubSeq(body, 4, 5)))]
             ELSE [ok |-> FALSE, aware |-> FALSE, minutes |-> 0]

\* sec is the wall-clock reading for a naive text, the instant (UTC) for one
\* with an offset
ParseTimestamp(s) ==
    IF ~(/\ Len(s) >= 19
         /\ AllDigits(SubSeq(s, 1, 4)) /\ s[5] = "-"
         /\ AllDigits(SubSeq(s, 6, 7)) /\ s[8] = "-"
         /\ AllDigits(SubSeq(s, 9, 10)) /\ s[11] \in {"T", " "}
         /\ AllDigits(SubSeq(s, 12, 13)) /\ s[14] = ":"
         /\ AllDigits(SubSeq(s, 15, 16)) /\ s[17] = ":"
         /\ AllDigits(SubSeq(s, 18, 19)))
    THEN Unparsed
    ELSE LET y == Num(SubSeq(s, 1, 4))
             m == Num(SubSeq(s, 6, 7))
             d == Num(SubSeq(s, 9, 10))
             hh == Num(SubSeq(s, 12, 13))
             mm == Num(SubSeq(s, 15, 16))
             ss == Num(SubSeq(s, 18, 19))
             hasFrac == Len(s) >= 20 /\ s[20] = "."
             nFrac == IF hasFrac THEN DigitRun(s, 21) ELSE 0
             offStart == IF hasFrac THEN 21 + nFrac ELSE 20
             off == ParseOffset(SubSeq(s, offStart, Len(s)))
         IN  IF \/ y < 2000 \/ m < 1 \/ m > 12 \/ d < 1
                \/ hh > 23 \/ mm > 59 \/ ss > 59
                \/ (hasFrac /\ (nFrac < 1 \/ nFrac > 6))
                \/ ~off.ok
             THEN Unparsed
             ELSE IF d > DaysInMonth(y, m) THEN Unparsed
             ELSE [ok |-> TRUE, aware |-> off.aware,
                   sec |-> SecondsOfCivil(y, m, d, hh, mm, ss) - off.minutes * 60,
                   micro |-> IF hasFrac
                             THEN Num(SubSeq(s, 21, 20 + nFrac)) * Pow10(6 - nFrac)
                             ELSE 0,
                   offset |-> off.minutes]

\* timestamps of the form date "T" time [fraction] offset
TsDates == {<<"2","0","2","3","-","1","0","-","0","1">>, <<"2","0","2","3","-","1","2","-","3","1">>}
TsTimes == {<<"0","8",":","0","0",":","0","0">>, <<"2","3",":","5","9",":","5","9">>, <<"0","0",":","0","0",":","0","0">>}
TsFractions == {<<>>, Dot000000, <<".","5">>, <<".","1","2","3","4","5","6">>}
TsOffsets == {<<"-","0","8">>, <<"-","0","8",":","0","0">>, <<"+","0","5",":","3","0">>, <<"+","0","0">>, <<"-","0","7">>}

FormInputs ==
    {d \o <<"T">> \o tm \o f \o o :
        d \in TsDates, tm \in TsTimes, f \in TsFractions, o \in TsOffsets}

\* other cell values: missing, no offset, a date alone, not a timestamp
OtherTsInputs ==
    {PyNone, PyNaN, PyStr(<<"2","0","2","3","-","1","0","-","0","1","T","0","8",":","0","0",":","0","0">>), PyStr(<<"2","0","2","3","-","1","0","-","0","1">>),
     PyStr(<<"2","0","2","3","-","1","0","-","0","1","T","0","8",":","0","0",":","0","0","Z">>), PyStr(<<"b","o","g","u","s">>), PyStr(<<>>)}

TsInputs == {PyStr(c) : c \in FormInputs} \cup OtherTsInputs

NormalizeTimestamp ==
    /\ \E timestamp \in TsInputs :
         /\ tsCall' = [made |-> TRUE, arg |-> timestamp]
         /\ tsResult' = normalize_timestamp(timestamp)
    /\ UNCHANGED <<catVars, dirVars, xwVars, mgVars>>

TimestampInit == CatIdle /\ DirIdle /\ tsCall = NoCall /\ tsResult = PyNone /\ XwIdle /\ MgIdle

TimestampNext == NormalizeTimestamp

SpecTimestamp == TimestampInit /\ [][TimestampNext]_vars

HasFraction(s) == Contains(<<".">>, s)

\* C6: normalize_timestamp gives None for a missing value; for every text of
\* the form date "T" time [fraction] offset (offset +HH or +HH:MM) it gives a
\* text that denotes the same instant and has a fraction and a full +HH:MM
\* offset; "2023-10-01T08:00:00-08" becomes
\* "2023-10-01T08:00:00.000000-08:00"; a text that already has both is
\* returned unchanged.
C6_NormalizeTimestamp ==
    tsCall.made =>
        /\ tsCall.arg.kind # "str" => tsResult = PyNone
        /\ (tsCall.arg.kind = "str" /\ tsCall.arg.chars \in FormInputs) =>
             /\ tsResult.kind = "str"
             /\ HasFraction(tsResult.chars)
             /\ EndsWithSignHHMM(tsResult.chars)
             /\ ParseTimestamp(tsResult.chars).ok
             /\ ParseTimestamp(tsResult.chars).aware
             /\ ParseTimestamp(tsResult.chars).sec = ParseTimestamp(tsCall.arg.chars).sec
             /\ ParseTimestamp(tsResult.chars).micro = ParseTimestamp(tsCall.arg.chars).micro
             /\ (HasFraction(tsCall.arg.chars) /\ EndsWithSignHHMM(tsCall.arg.chars)) =>
                  tsResult = tsCall.arg
        /\ tsCall.arg = PyStr(<<"2","0","2","3","-","1","0","-","0","1","T","0","8",":","0","0",":","0","0","-","0","8">>) =>
             tsResult = PyStr(<<"2","0","2","3","-","1","0","-","0","1","T","0","8",":","0","0",":","0","0",".","0","0","0","0","0","0","-","0","8",":","0","0">>)

C6_Witness ==
    /\ tsCall.made
    /\ tsCall.arg = PyStr(<<"2","0","2","3","-","1","0","-","0","1","T","0","8",":","0","0",":","0","0","-","0","8">>)
    /\ tsResult = PyStr(<<"2","0","2","3","-","1","0","-","0","1","T","0","8",":","0","0",":","0","0",".","0","0","0","0","0","0","-","0","8",":","0","0">>)
    /\ ParseTimestamp(tsResult.chars).ok

(***************************************************************************)
(* The crosswalk script (demo_sjoin_portal_inrix_meta.py, lines 84-165)    *)
(* A geometry is a set of cells of a line, numbered in the coordinates of  *)
(* its reference system; the systems differ by a shift of the numbering.   *)
(* A data frame is the sequence of its rows.                               *)
(***************************************************************************)
Geom(crs, cells) == [kind |-> "geom", crs |-> crs, cells |-> cells]
NoGeom == [kind |-> "None", crs |-> "", cells |-> {}]

\* A cell of stations.csv: missing (NaN) or a text.  The coordinates inside
\* a payload are not spelled out: geom is the geometry the bytes of the text
\* encode when they are a well-formed WKB/EWKB payload.
Cell(chars, cells) == [kind |-> "str", chars |-> chars, geom |-> Geom("", cells)]
NaNCell == [kind |-> "nan", chars |-> <<>>, geom |-> NoGeom]
BlankCell == Cell(<<" ", " ">>, {})

\* a little-endian WKB point: byte order 01, type 01000000, two doubles
PointHex == <<"0","1","0","1","0","0","0","0","0","0","0","0","0","0","0","0","0","0","0","0","0","0","0","0","0","0","0","0","0","0","0","0","0","0","0","0","0","0","0","0","0","0">>
HexCell(cells) == Cell(PointHex, cells)

IsSpace(c) == c \in {" ", "\t", "\n"}

\* int(c, 16) of the hexadecimal digits
HexDigits ==
    "0" :> 0 @@ "1" :> 1 @@ "2" :> 2 @@ "3" :> 3 @@ "4" :> 4 @@ "5" :> 5
    @@ "6" :> 6 @@ "7" :> 7 @@ "8" :> 8 @@ "9" :> 9 @@ "a" :> 10 @@ "b" :>
    11 @@ "c" :> 12 @@ "d" :> 13 @@ "e" :> 14 @@ "f" :> 15 @@ "A" :> 10 @@
    "B" :> 11 @@ "C" :> 12 @@ "D" :> 13 @@ "E" :> 14 @@ "F" :> 15
IsHex(c) == c \in DOMAIN HexDigits
HexVal(c) == HexDigits[c]

\* bytes.fromhex: pairs of hexadecimal digits, ASCII whitespace between the
\* pairs is skipped, anything else (another character, a digit left alone,
\* whitespace inside a pair) is a ValueError
fromhex(s) ==
    LET at == SelectSeq([i \in 1..Len(s) |-> i], LAMBDA i : ~IsSpace(s[i]))
        n == Len(at) \div 2
    IN  IF /\ Len(at) = 2 * n
           /\ \A k \in 1..Len(at) : IsHex(s[at[k]])
           /\ \A k \in 1..n : at[2 * k] = at[2 * k - 1] + 1
        THEN [ok |-> TRUE,
              bytes |-> [k \in 1..n |->
                            16 * HexVal(s[at[2 * k - 1]]) + HexVal(s[at[2 * k]])]]
        ELSE [ok |-> FALSE, bytes |-> <<>>]

\* the unsigned 32-bit integer at bytes i..i+3, most significant byte last
\* (little endian) or first; its top byte is returned apart
Word(b, i, little) ==
    LET at(k) == IF little THEN b[i + k] ELSE b[i + 3 - k]
    IN  [low |-> at(0) + 256 * at(1) + 65536 * at(2), top |-> at(3)]

\* shapely.wkb.loads accepts the payload: a byte order (00 big endian, as in
\* check_ewkb_srid; stations.csv holds 00 and 01 only), a type word whose top
\* byte carries the EWKB flags Z (80), M (40), SRID (20), then the body of a
\* point (type 1) or a line string (type 2), the geometry types of stations
WellFormedWkb(b) ==
    /\ Len(b) >= 5
    /\ LET little == b[1] # 0
           type == Word(b, 2, little)
           dims == 2 + (IF (type.top \div 128) % 2 = 1 THEN 1 ELSE 0)
                     + (IF (type.top \div 64) % 2 = 1 THEN 1 ELSE 0)
           body == 6 + (IF (type.top \div 32) % 2 = 1 THEN 4 ELSE 0)
       IN  /\ type.top % 32 = 0
           /\ \/ /\ type.low = 1
                 /\ Len(b) >= body - 1 + 8 * dims
              \/ /\ type.low = 2
                 /\ Len(b) >= body + 3
                 /\ Word(b, body, little).top = 0
                 /\ Len(b) >= body + 3 + 8 * dims * Word(b, body, little).low

\* lines 69-72, the body of the try statement
wkb_to_geom_try(wkb_hex) ==
    IF wkb_hex.kind = "nan" THEN Returned(NoGeom)
    ELSE IF \A i \in DOMAIN wkb_hex.chars : IsSpace(wkb_hex.chars[i])
         THEN Returned(NoGeom)
    ELSE LET wkb == fromhex(wkb_hex.chars)
         IN  IF ~wkb.ok THEN Raised("ValueError")
             ELSE IF ~WellFormedWkb(wkb.bytes) THEN Raised("ShapelyError")
             ELSE Returned(wkb_hex.geom)

\* line 74: except (ValueError, TypeError)
wkb_to_geom_caught == {"ValueError", "TypeError"}

wkb_to_geom(wkb_hex) ==
    LET r == wkb_to_geom_try(wkb_hex)
    IN  IF r.err \in wkb_to_geom_caught THEN Returned(NoGeom) ELSE r

the_CRS == "EPSG:3857"

CrsOrigin(crs) ==
    CASE crs = "EPSG:4326" -> 0
      [] crs = "EPSG:3857" -> 100
      [] crs = "oregon.prj" -> 200
      [] crs = "clark.prj" -> 300

\* GeoSeries.to_crs: a missing geometry stays missing
to_crs(g, target) ==
    IF g.kind = "None" THEN g
    ELSE Geom(target, {c - CrsOrigin(g.crs) + CrsOrigin(target) : c \in g.cells})

\* GeoDataFrame(df, geometry=..., crs=...): the geometries are declared to be in crs
set_crs(g, crs) == IF g.kind = "None" THEN g ELSE Geom(crs, g.cells)

\* the predicate "intersects"; a missing geometry intersects nothing
Intersects(a, b) == a.kind = "geom" /\ b.kind = "geom" /\ a.cells \cap b.cells # {}

RECURSIVE Flatten(_)
\* the concatenation of a sequence of row sequences
Flatten(ss) == IF ss = <<>> THEN <<>> ELSE Head(ss) \o Flatten(Tail(ss))

RECURSIVE PickFrom(_, _, _)
\* the rows of U at the positions I, in order
PickFrom(U, I, k) ==
    IF k > Len(U) THEN <<>>
    ELSE (IF k \in I THEN <<U[k]>> ELSE <<>>) \o PickFrom(U, I, k + 1)

\* DataFrame.merge(right, on="highwayid", how="left") of one station row
MergeHighwayRow(row, highways) ==
    LET matches == SelectSeq(highways, LAMBDA h : h.highwayid = row.highwayid)
    IN  IF matches = <<>>
        THEN << [stationid |-> row.stationid, highwayid |-> row.highwayid,
                 segment_geom |-> row.segment_geom, station_geom |-> row.station_geom,
                 direction |-> PyNaN, bound |-> PyNaN] >>
        ELSE [k \in DOMAIN matches |->
                [stationid |-> row.stationid, highwayid |-> row.highwayid,
                 segment_geom |-> row.segment_geom, station_geom |-> row.station_geom,
                 direction |-> matches[k].direction, bound |-> matches[k].bound]]

inrix_filter_All(df, ids) == df

\* inrix_full_df[inrix_full_df["Tmc"].isin(unique_tmc_ids)]
inrix_filter(df, ids) == SelectSeq(df, LAMBDA r : r.Tmc \in Range(ids))

\* the rows an inner sjoin gives for one left row
SjoinRow(l, right) ==
    Flatten([j \in DOMAIN right |->
              IF Intersects(l.geometry, right[j].segment_geom)
              THEN << [idx |-> l.idx, Tmc |-> l.Tmc, Direction |-> l.Direction,
                       standardized_direction_inrix |-> l.standardized_direction,
                       index_portal |-> j,
                       stationid |-> right[j].stationid,
                       highwayid |-> right[j].highwayid,
                       direction |-> right[j].direction, bound |-> right[j].bound,
                       standardized_direction_portal |-> right[j].standardized_direction] >>
              ELSE <<>>])

\* left.sjoin(right, how="inner", predicate="intersects")
sjoin(left, right) == Flatten([i \in DOMAIN left |-> SjoinRow(left[i], right)])

\* lines 99-104
DecodeGeometry ==
    /\ xPc = "start"
    /\ LET raised == {wkb_to_geom(xIn.stations[i][col]).err :
                         i \in DOMAIN xIn.stations,
                         col \in {"segment_geom", "station_geom"}} \ {"none"}
       IN  IF raised # {}
           THEN /\ xPc' \in raised
                /\ UNCHANGED portal_stations_df
           ELSE /\ xPc' = "decoded"
                /\ portal_stations_df' =
                     [i \in DOMAIN xIn.stations |->
                        [stationid |-> xIn.stations[i].stationid,
                         highwayid |-> xIn.stations[i].highwayid,
                         segment_geom |-> wkb_to_geom(xIn.stations[i].segment_geom).val[1],
                         station_geom |-> wkb_to_geom(xIn.stations[i].station_geom).val[1]]]
    /\ UNCHANGED <<xIn, inrix_full_df, inrix_filtered_by_tmc, portal_inrix_spatial_join>>
    /\ UNCHANGED <<catVars, dirVars, tsVars, mgVars>>

\* lines 116-120
MergeHighways ==
    /\ xPc = "decoded"
    /\ portal_stations_df' =
         Flatten([i \in DOMAIN portal_stations_df |->
                    MergeHighwayRow(portal_stations_df[i], xIn.highways)])
    /\ xPc' = "merged"
    /\ UNCHANGED <<xIn, inrix_full_df, inrix_filtered_by_tmc, portal_inrix_spatial_join>>
    /\ UNCHANGED <<catVars, dirVars, tsVars, mgVars>>

\* lines 123-126: DataFrame.apply stops at the first row that raises
StandardizePortal ==
    /\ xPc = "merged"
    /\ LET std == [i \in DOMAIN portal_stations_df |->
                     standardize_direction(portal_stations_df[i].direction,
                                           portal_stations_df[i].bound)]
       IN  IF \E i \in DOMAIN std : std[i].err # "none"
           THEN /\ xPc' = "AttributeError"
                /\ UNCHANGED portal_stations_df
           ELSE /\ xPc' = "standardized"
                /\ portal_stations_df' =
                     [i \in DOMAIN portal_stations_df |->
                        [stationid |-> portal_stations_df[i].stationid,
                         highwayid |-> portal_stations_df[i].highwayid,
                         segment_geom |-> portal_stations_df[i].segment_geom,
                         station_geom |-> portal_stations_df[i].station_geom,
                         direction |-> portal_stations_df[i].direction,
                         bound |-> portal_stations_df[i].bound,
                         standardized_direction |-> std[i].val[1]]]
    /\ UNCHANGED <<xIn, inrix_full_df, inrix_filtered_by_tmc, portal_inrix_spatial_join>>
    /\ UNCHANGED <<catVars, dirVars, tsVars, mgVars>>

\* lines 129-159: the three frames brought to EPSG:4326, the probe frames
\* concatenated under a fresh index, the probe directions standardized
BuildGeoFrames ==
    /\ xPc = "standardized"
    /\ LET both == [i \in DOMAIN xIn.oregon |->
                      [Tmc |-> xIn.oregon[i].Tmc, Direction |-> xIn.oregon[i].Direction,
                       geometry |-> to_crs(xIn.oregon[i].geometry, "EPSG:4326")]]
                   \o
                   [i \in DOMAIN xIn.clark |->
                      [Tmc |-> xIn.clark[i].Tmc, Direction |-> xIn.clark[i].Direction,
                       geometry |-> to_crs(xIn.clark[i].geometry, "EPSG:4326")]]
           std == [i \in DOMAIN both |-> standardize_direction(both[i].Direction, PyNone)]
       IN  IF \E i \in DOMAIN std : std[i].err # "none"
           THEN /\ xPc' = "AttributeError"
                /\ UNCHANGED <<portal_stations_df, inrix_full_df>>
           ELSE /\ xPc' = "framed"
                /\ portal_stations_df' =
                     [i \in DOMAIN portal_stations_df |->
                        [portal_stations_df[i] EXCEPT
                           !.segment_geom = to_crs(set_crs(@, the_CRS), "EPSG:4326")]]
                /\ inrix_full_df' =
                     [i \in DOMAIN both |->
                        [idx |-> i, Tmc |-> both[i].Tmc, Direction |-> both[i].Direction,
                         geometry |-> both[i].geometry,
                         standardized_direction |-> std[i].val[1]]]
    /\ UNCHANGED <<xIn, inrix_filtered_by_tmc, portal_inrix_spatial_join>>
    /\ UNCHANGED <<catVars, dirVars, tsVars, mgVars>>

\* lines 160-161
FilterByTmc ==
    /\ xPc = "framed"
    /\ inrix_filtered_by_tmc' = inrix_filter(inrix_full_df, xIn.tmc_identification)
    /\ xPc' = "filtered"
    /\ UNCHANGED <<xIn, portal_stations_df, inrix_full_df, portal_inrix_spatial_join>>
    /\ UNCHANGED <<catVars, dirVars, tsVars, mgVars>>

\* lines 163-165
SpatialJoin ==
    /\ xPc = "filtered"
    /\ portal_inrix_spatial_join' = sjoin(inrix_filtered_by_tmc, portal_stations_df)
    /\ xPc' = "done"
    /\ UNCHANGED <<xIn, portal_stations_df, inrix_full_df, inrix_filtered_by_tmc>>
    /\ UNCHANGED <<catVars, dirVars, tsVars, mgVars>>

(* The files read.  Stations S1..S3 lie on cells {1,2}, {2,3}, {3,4} of the  *)
(* line (written in EPSG:3857 numbering), S4 has no geometry, S5 names a    *)
(* highway the highways table lacks.  Probe segments: T1 on {1}, T5 on       *)
(* {2,3}, T3 on {6}, T4 on {2}, T6 on {4}.                                  *)
StationRow(id, hwy, cell) ==
    [stationid |-> id, highwayid |-> hwy, segment_geom |-> cell, station_geom |-> NaNCell]

StationUniverse ==
    << StationRow("S1", 1, HexCell({101, 102})),
       StationRow("S2", 1, HexCell({102, 103})),
       StationRow("S3", 2, HexCell({103, 104})),
       StationRow("S4", 1, NaNCell),
       StationRow("S5", 3, HexCell({101})),
       StationRow("S6", 1, Cell(<<"0","1","0","1","0","0","0","0","0","0","0","0">>, {})) >>

HighwayTable ==
    << [highwayid |-> 1, direction |-> PyStr(T_NORTH), bound |-> PyStr(NB)],
       [highwayid |-> 2, direction |-> PyStr(T_CONST), bound |-> PyStr(SB)] >>

ProbeRow(tmc, direction, crs, cells) ==
    [Tmc |-> tmc, Direction |-> PyStr(direction), geometry |-> Geom(crs, cells)]

OregonUniverse ==
    << ProbeRow("T1", T_NORTHBOUND, "oregon.prj", {201}),
       ProbeRow("T5", T_SOUTHBOUND, "oregon.prj", {202, 203}),
       ProbeRow("T3", T_NORTHBOUND, "oregon.prj", {206}) >>

ClarkUniverse ==
    << ProbeRow("T4", T_NORTHBOUND, "clark.prj", {302}),
       ProbeRow("T6", T_SOUTHBOUND, "clark.prj", {304}) >>

TmcIdentifications ==
    { <<"T1", "T5", "T3", "T6">>, <<"T1", "T1", "T4">>, <<>> }

CrosswalkInit ==
    /\ CatIdle /\ DirIdle /\ TsIdle /\ MgIdle
    /\ xIn \in {[stations |-> PickFrom(StationUniverse, si, 1),
                 highways |-> HighwayTable,
                 oregon |-> PickFrom(OregonUniverse, oi, 1),
                 clark |-> PickFrom(ClarkUniverse, ci, 1),
                 tmc_identification |-> ids] :
                   si \in SUBSET DOMAIN StationUniverse,
                   oi \in SUBSET DOMAIN OregonUniverse,
                   ci \in SUBSET DOMAIN ClarkUniverse,
                   ids \in TmcIdentifications}
    /\ xPc = "start"
    /\ portal_stations_df = <<>>
    /\ inrix_full_df = <<>>
    /\ inrix_filtered_by_tmc = <<>>
    /\ portal_inrix_spatial_join = <<>>

CrosswalkNext ==
    \/ DecodeGeometry \/ MergeHighways \/ StandardizePortal
    \/ BuildGeoFrames \/ FilterByTmc \/ SpatialJoin

SpecCrosswalk == CrosswalkInit /\ [][CrosswalkNext]_vars

\* where a geometry lies on the ground: cells in EPSG:4326 numbering; the
\* station texts carry no reference system and are EPSG:3857 coordinates
GroundCells(g, crs) ==
    CASE crs = "EPSG:4326" -> g.cells
      [] crs = "EPSG:3857" -> {c - 100 : c \in g.cells}
      [] crs = "oregon.prj" -> {c - 200 : c \in g.cells}
      [] crs = "clark.prj" -> {c - 300 : c \in g.cells}

ProbesRead == xIn.oregon \o xIn.clark

\* probe row i and station row j of the files overlap on the ground
Overlap(i, j) ==
    /\ xIn.stations[j].segment_geom.kind = "str"
    /\ GroundCells(ProbesRead[i].geometry, ProbesRead[i].geometry.crs)
         \cap GroundCells(xIn.stations[j].segment_geom.geom, "EPSG:3857") # {}

JoinRowsFor(i, j) ==
    {k \in DOMAIN portal_inrix_spatial_join :
        /\ portal_inrix_spatial_join[k].idx = i
        /\ portal_inrix_spatial_join[k].index_portal = j}

\* C10: the crosswalk holds exactly one row for each pair (probe segment,
\* station segment) whose probe identifier is in the identification table and
\* whose geometries intersect, and no other row: none for a probe segment
\* that overlaps no station, none for one that is not in the table.
C10_CrosswalkCardinality ==
    xPc = "done" =>
        /\ \A i \in DOMAIN ProbesRead, j \in DOMAIN xIn.stations :
             Cardinality(JoinRowsFor(i, j)) =
                IF ProbesRead[i].Tmc \in Range(xIn.tmc_identification) /\ Overlap(i, j)
                THEN 1 ELSE 0
        /\ \A k \in DOMAIN portal_inrix_spatial_join :
             LET r == portal_inrix_spatial_join[k]
             IN  /\ r.idx \in DOMAIN ProbesRead
                 /\ r.index_portal \in DOMAIN xIn.stations
                 /\ r.Tmc = ProbesRead[r.idx].Tmc
                 /\ r.stationid = xIn.stations[r.index_portal].stationid

RowsOfTmc(tmc) ==
    {k \in DOMAIN portal_inrix_spatial_join : portal_inrix_spatial_join[k].Tmc = tmc}

\* T5 overlaps three stations and has three rows, T1 has one, T3 (in the
\* table, overlapping nothing) and T4 (overlapping S1 and S2, not in the
\* table) have none
C10_Witness ==
    /\ xPc = "done"
    /\ Len(xIn.stations) = 4
    /\ Len(ProbesRead) = 5
    /\ xIn.tmc_identification = <<"T1", "T5", "T3", "T6">>
    /\ Cardinality(RowsOfTmc("T5")) = 3
    /\ Cardinality(RowsOfTmc("T1")) = 1
    /\ RowsOfTmc("T3") = {}
    /\ RowsOfTmc("T4") = {}
    /\ Len(portal_inrix_spatial_join) = 5

\* ---------------------------------------------------------------------------
\* demo_create_joined_timeseries.py: the temporal merge of detector and probe
\* observations through the crosswalk.
\* ---------------------------------------------------------------------------

year == 2023
route_name == <<"I","2","0","5">>
bound_1 == NB
bound_2 == SB

IsLetter(c) == \E i \in DOMAIN LowerCase : c = LowerCase[i] \/ c = UpperCase[i]

\* re.sub(r"([A-Za-z]+)(\d+)", r"\1-\2", s): every run of letters directly
\* followed by a run of digits gets a hyphen between the two runs
RECURSIVE HyphenateFrom(_, _)
HyphenateFrom(s, i) ==
    IF i > Len(s) THEN <<>>
    ELSE IF i < Len(s) /\ IsLetter(s[i]) /\ IsDigit(s[i + 1])
         THEN <<s[i], "-">> \o HyphenateFrom(s, i + 1)
         ELSE <<s[i]>> \o HyphenateFrom(s, i + 1)

adjusted_route_name == HyphenateFrom(route_name, 1)

\* A parsed column value: an instant (seconds and microseconds since
\* 2000-01-01T00:00:00Z) or NaT.
Instant(sec, micro) == [nat |-> FALSE, sec |-> sec, micro |-> micro]
NaT == [nat |-> TRUE, sec |-> 0, micro |-> 0]

\* America/Los_Angeles in 2023: daylight time starts at 02:00 wall time on
\* 12 March (02:00..02:59 do not exist) and ends on 5 November, when
\* 01:00..01:59 wall time occur twice.
PST == 8 * 3600
PDT == 7 * 3600
GapStartWall == SecondsOfCivil(2023, 3, 12, 2, 0, 0)
FoldStartWall == SecondsOfCivil(2023, 11, 5, 1, 0, 0)

NonExistent(wall) == GapStartWall <= wall /\ wall < GapStartWall + 3600

\* tz_localize("America/Los_Angeles", ambiguous=True) of a wall time of 2023:
\* an ambiguous wall time is taken as daylight time
tz_localize(wall) ==
    IF wall < GapStartWall THEN wall + PST
    ELSE IF wall < FoldStartWall + 3600 THEN wall + PDT
    ELSE wall + PST

start_dt == Instant(tz_localize(SecondsOfCivil(year, 10, 1, 0, 0, 0)), 0)
end_dt == Instant(tz_localize(SecondsOfCivil(year, 12, 31, 23, 59, 59)), 0)

\* .dt.year of a column converted to America/Los_Angeles; NaT has no year.
\* Every new year falls in standard time, so the local year is the civil year
\* of the instant moved by the standard offset.
YearOf(t) ==
    LET loc == t.sec - PST
    IN  CHOOSE y \in 1999..2067 :
            /\ DaysBeforeYear(y) * 86400 <= loc
            /\ loc < DaysBeforeYear(y + 1) * 86400

\* pd.to_datetime(column, utc=True, errors="coerce") of one cell: a missing or
\* unparseable cell is NaT, text without an offset is read as UTC
to_datetime_utc(cell) ==
    IF cell.kind # "str" THEN NaT
    ELSE LET p == ParseTimestamp(cell.chars)
         IN  IF p.ok THEN Instant(p.sec, p.micro) ELSE NaT

\* normalize_timestamp applied to a column cell, then to_datetime_utc
ParseAwareCell(cell) ==
    to_datetime_utc(normalize_timestamp(cell))

\* a numeric cell: a number or <NA>
Number(v) == [na |-> FALSE, v |-> v]
NA == [na |-> TRUE, v |-> 0]
Times(x, k) == IF x.na THEN NA ELSE Number(x.v * k)
Minus(x, y) == IF x.na \/ y.na THEN NA ELSE Number(x.v - y.v)

\* a missing text cell
NA_string == <<"<NA>">>

\* pd.to_datetime(column) of one probe cell, then .dt.tz_localize: text that
\* is no timestamp makes to_datetime raise; text with an offset gives an
\* aware column, which tz_localize refuses; a wall time in the spring gap
\* does not exist
ProbeCell(cell) ==
    IF cell.kind # "str" THEN [err |-> "none", t |-> NaT]
    ELSE LET p == ParseTimestamp(cell.chars)
         IN  IF ~p.ok THEN [err |-> "ValueError", t |-> NaT]
             ELSE IF p.aware THEN [err |-> "TypeError", t |-> NaT]
             ELSE IF NonExistent(p.sec) THEN [err |-> "NonExistentTimeError", t |-> NaT]
             ELSE [err |-> "none", t |-> Instant(tz_localize(p.sec), p.micro)]

\* the first error the probe timestamp column raises, "none" if it parses
ProbeColumnError(df) ==
    LET errs == {ProbeCell(df[i].measurement_tstamp).err : i \in DOMAIN df}
    IN  IF "ValueError" \in errs THEN "ValueError"
        ELSE IF "TypeError" \in errs THEN "TypeError"
        ELSE IF "NonExistentTimeError" \in errs THEN "NonExistentTimeError"
        ELSE "none"

Before(a, b) == a.sec < b.sec \/ (a.sec = b.sec /\ a.micro < b.micro)

between_Neither(t, left, right) == ~t.nat /\ Before(left, t) /\ Before(t, right)

\* Series.between(left, right, inclusive="both"); NaT compares False
between(t, left, right) == ~t.nat /\ ~Before(t, left) /\ ~Before(right, t)

\* .unique().tolist() of a column, as the set isin() tests against
tmcs_of_interest == {portal_inrix_meta_df_filtered[i].Tmc :
                         i \in DOMAIN portal_inrix_meta_df_filtered}
station_ids_of_interest == {portal_inrix_meta_df_filtered[i].stationid :
                                i \in DOMAIN portal_inrix_meta_df_filtered}

meta_mask_ClosedEnd(r, name, y) ==
    /\ r.RoadNumb_1 = name
    /\ ~r.start_date.nat /\ YearOf(r.start_date) <= y
    /\ ~r.end_date.nat /\ YearOf(r.end_date) >= y

\* the boolean mask of lines 196-205 for one crosswalk row, given the
\* formatted route name and the year
meta_mask(r, name, y) ==
    /\ r.RoadNumb_1 = name
    /\ ~r.start_date.nat /\ YearOf(r.start_date) <= y
    /\ \/ (~r.end_date.nat /\ YearOf(r.end_date) >= y)
       \/ r.end_date.nat

MetaMask(r) == meta_mask(r, adjusted_route_name, year)

\* pd.merge(left row, crosswalk[["Tmc", "stationid"]], left_on="tmc_code",
\* right_on="Tmc", how="left")
EnrichRow(l, right) ==
    LET hits == SelectSeq(right, LAMBDA r : r.Tmc = l.tmc_code)
    IN  IF hits = <<>>
        THEN <<[tmc_code |-> l.tmc_code, measurement_tstamp |-> l.measurement_tstamp,
                travel_time_seconds |-> l.travel_time_seconds,
                Tmc |-> NA_string, stationid |-> NA_string]>>
        ELSE [k \in DOMAIN hits |->
                 [tmc_code |-> l.tmc_code, measurement_tstamp |-> l.measurement_tstamp,
                  travel_time_seconds |-> l.travel_time_seconds,
                  Tmc |-> hits[k].Tmc, stationid |-> hits[k].stationid]]

KeysEqual_StationOnly(l, r) == l.stationid = r.stationid

\* left_on=["stationid", "starttime"], right_on=["stationid", "measurement_tstamp"]
KeysEqual(l, r) == l.stationid = r.stationid /\ l.starttime = r.measurement_tstamp

\* pd.merge(left row, inrix_enriched, ..., how="inner") and the diff column
MergeRow(l, right) ==
    LET hits == SelectSeq(right, LAMBDA r : KeysEqual(l, r))
    IN  [k \in DOMAIN hits |->
            [stationid |-> l.stationid, starttime |-> l.starttime,
             stationtt |-> l.stationtt, tmc_code |-> hits[k].tmc_code,
             measurement_tstamp |-> hits[k].measurement_tstamp,
             travel_time_seconds |-> hits[k].travel_time_seconds,
             Tmc |-> hits[k].Tmc,
             diff |-> Minus(l.stationtt, hits[k].travel_time_seconds)]]

\* lines 101-125: read the crosswalk, normalise and parse its dates
LoadCrosswalk ==
    /\ mPc = "start"
    /\ sjoined_portal_inrix_df' =
           [i \in DOMAIN mIn.crosswalk |->
               [mIn.crosswalk[i] EXCEPT !.start_date = ParseAwareCell(@),
                                        !.end_date = ParseAwareCell(@)]]
    /\ mPc' = "crosswalk"
    /\ UNCHANGED <<mIn, portal_data_df, inrix_data_df, portal_inrix_meta_df_filtered,
                   inrix_data_filtered_df, portal_data_filtered_df, inrix_enriched,
                   merged_df>>
    /\ UNCHANGED <<catVars, dirVars, tsVars, xwVars>>

\* lines 136-170: concatenate the detector files of the two bounds (pd.concat
\* of an empty list raises ValueError), parse starttime, minutes to seconds
LoadPortal ==
    /\ mPc = "crosswalk"
    /\ IF mIn.bound_1_files = <<>> \/ mIn.bound_2_files = <<>>
       THEN /\ mPc' = "ValueError"
            /\ UNCHANGED portal_data_df
       ELSE /\ mPc' = "portal"
            /\ portal_data_df' =
                   LET raw == Flatten(mIn.bound_1_files) \o Flatten(mIn.bound_2_files)
                   IN  [i \in DOMAIN raw |->
                           [stationid |-> raw[i].stationid,
                            starttime |-> ParseAwareCell(raw[i].starttime),
                            stationtt |-> Times(raw[i].stationtt, 60)]]
    /\ UNCHANGED <<mIn, sjoined_portal_inrix_df, inrix_data_df,
                   portal_inrix_meta_df_filtered, inrix_data_filtered_df,
                   portal_data_filtered_df, inrix_enriched, merged_df>>
    /\ UNCHANGED <<catVars, dirVars, tsVars, xwVars>>

\* lines 178-188: read the probe file, parse measurement_tstamp and localize it
LoadInrix ==
    /\ mPc = "portal"
    /\ IF ProbeColumnError(mIn.inrix) # "none"
       THEN /\ mPc' = ProbeColumnError(mIn.inrix)
            /\ UNCHANGED inrix_data_df
       ELSE /\ mPc' = "inrix"
            /\ inrix_data_df' =
                   [i \in DOMAIN mIn.inrix |->
                       [mIn.inrix[i] EXCEPT
                           !.measurement_tstamp = ProbeCell(@).t]]
    /\ UNCHANGED <<mIn, sjoined_portal_inrix_df, portal_data_df,
                   portal_inrix_meta_df_filtered, inrix_data_filtered_df,
                   portal_data_filtered_df, inrix_enriched, merged_df>>
    /\ UNCHANGED <<catVars, dirVars, tsVars, xwVars>>

\* lines 196-205: the crosswalk rows of the route that are active in the year
FilterMeta ==
    /\ mPc = "inrix"
    /\ portal_inrix_meta_df_filtered' = SelectSeq(sjoined_portal_inrix_df, MetaMask)
    /\ mPc' = "meta"
    /\ UNCHANGED <<mIn, sjoined_portal_inrix_df, portal_data_df, inrix_data_df,
                   inrix_data_filtered_df, portal_data_filtered_df, inrix_enriched,
                   merged_df>>
    /\ UNCHANGED <<catVars, dirVars, tsVars, xwVars>>

\* lines 208-214
FilterInrix ==
    /\ mPc = "meta"
    /\ inrix_data_filtered_df' =
           SelectSeq(inrix_data_df,
                     LAMBDA r : /\ r.tmc_code \in tmcs_of_interest
                                /\ between(r.measurement_tstamp, start_dt, end_dt))
    /\ mPc' = "inrix filtered"
    /\ UNCHANGED <<mIn, sjoined_portal_inrix_df, portal_data_df, inrix_data_df,
                   portal_inrix_meta_df_filtered, portal_data_filtered_df,
                   inrix_enriched, merged_df>>
    /\ UNCHANGED <<catVars, dirVars, tsVars, xwVars>>

\* lines 222-228
FilterPortal ==
    /\ mPc = "inrix filtered"
    /\ portal_data_filtered_df' =
           SelectSeq(portal_data_df,
                     LAMBDA r : /\ r.stationid \in station_ids_of_interest
                                /\ between(r.starttime, start_dt, end_dt))
    /\ mPc' = "portal filtered"
    /\ UNCHANGED <<mIn, sjoined_portal_inrix_df, portal_data_df, inrix_data_df,
                   portal_inrix_meta_df_filtered, inrix_data_filtered_df,
                   inrix_enriched, merged_df>>
    /\ UNCHANGED <<catVars, dirVars, tsVars, xwVars>>

\* lines 237-243: the left merge takes the links of the whole crosswalk
EnrichInrix ==
    /\ mPc = "portal filtered"
    /\ inrix_enriched' =
           Flatten([i \in DOMAIN inrix_data_filtered_df |->
                       EnrichRow(inrix_data_filtered_df[i], sjoined_portal_inrix_df)])
    /\ mPc' = "enriched"
    /\ UNCHANGED <<mIn, sjoined_portal_inrix_df, portal_data_df, inrix_data_df,
                   portal_inrix_meta_df_filtered, inrix_data_filtered_df,
                   portal_data_filtered_df, merged_df>>
    /\ UNCHANGED <<catVars, dirVars, tsVars, xwVars>>

\* lines 247-258
Merge ==
    /\ mPc = "enriched"
    /\ merged_df' =
           Flatten([i \in DOMAIN portal_data_filtered_df |->
                       MergeRow(portal_data_filtered_df[i], inrix_enriched)])
    /\ mPc' = "done"
    /\ UNCHANGED <<mIn, sjoined_portal_inrix_df, portal_data_df, inrix_data_df,
                   portal_inrix_meta_df_filtered, inrix_data_filtered_df,
                   portal_data_filtered_df, inrix_enriched>>
    /\ UNCHANGED <<catVars, dirVars, tsVars, xwVars>>

\* The files the merge script is run on.
LinkRow(tmc, station, road, start, end) ==
    [Tmc |-> tmc, stationid |-> station, RoadNumb_1 |-> road,
     start_date |-> start, end_date |-> end]

LinkUniverse ==
    << LinkRow(<<"T","1">>, <<"1","0","0","1">>, <<"I","-","2","0","5">>, PyStr(<<"2","0","1","5","-","0","1","-","0","1"," ","0","0",":","0","0",":","0","0","-","0","8">>), PyNaN),
       LinkRow(<<"T","1">>, <<"1","0","0","2">>, <<"I","-","2","0","5">>, PyStr(<<"2","0","1","5","-","0","1","-","0","1"," ","0","0",":","0","0",":","0","0","-","0","8">>),
               PyStr(<<"2","0","2","2","-","0","6","-","3","0"," ","0","0",":","0","0",":","0","0","-","0","7">>)),
       LinkRow(<<"T","2">>, <<"1","0","0","2">>, <<"I","-","2","0","5">>, PyStr(<<"2","0","2","4","-","0","1","-","0","1"," ","0","3",":","0","0",":","0","0","+","0","0">>), PyNaN),
       LinkRow(<<"T","1">>, <<"1","0","0","1">>, <<"I","-","2","0","5">>, PyStr(<<"2","0","1","9","-","0","3","-","0","1"," ","0","0",":","0","0",":","0","0","-","0","8">>),
               PyStr(<<"2","0","2","4","-","0","2","-","0","1"," ","0","0",":","0","0",":","0","0","-","0","8">>)),
       LinkRow(<<"T","2">>, <<"1","0","0","3">>, <<"I","-","5">>, PyStr(<<"2","0","1","5","-","0","1","-","0","1"," ","0","0",":","0","0",":","0","0","-","0","8">>), PyNaN) >>

DetectorRow(station, starttime, minutes) ==
    [stationid |-> station, starttime |-> starttime, stationtt |-> minutes]

DetectorFiles_bound_1 ==
    << << DetectorRow(<<"1","0","0","1">>, PyStr(<<"2","0","2","3","-","1","0","-","0","1","T","0","8",":","0","0",":","0","0","-","0","8">>), Number(5)) >>,
       << DetectorRow(<<"1","0","0","1">>, PyStr(<<"2","0","2","3","-","1","0","-","0","1","T","0","0",":","0","0",":","0","0","-","0","7">>), Number(4)),
          DetectorRow(<<"1","0","0","2">>, PyStr(<<"2","0","2","3","-","0","9","-","3","0","T","2","3",":","5","9",":","5","9",".","9","9","9","9","9","9","-","0","7",":","0","0">>), Number(3)),
          DetectorRow(<<"1","0","0","1">>, PyNaN, Number(7)) >> >>

DetectorFiles_bound_2 ==
    << << DetectorRow(<<"1","0","0","2">>, PyStr(<<"2","0","2","3","-","1","2","-","3","1","T","2","3",":","5","9",":","5","9","-","0","8",":","0","0">>), Number(6)),
          DetectorRow(<<"1","0","0","1">>, PyStr(<<"2","0","2","3","-","1","2","-","3","1","T","2","3",":","5","9",":","5","9",".","0","0","0","0","0","1","-","0","8",":","0","0">>), Number(2)) >>,
       << DetectorRow(<<"1","0","0","3">>, PyStr(<<"2","0","2","3","-","1","0","-","0","1","T","0","9",":","0","0",":","0","0",".","0","-","0","7",":","0","0">>), Number(8)),
          DetectorRow(<<"1","0","0","2">>, PyStr(<<"2","0","2","3","-","1","0","-","0","1","T","1","6",":","0","0",":","0","0","+","0","0">>), NA),
          DetectorRow(<<"1","0","0","2">>, PyStr(<<"n","o","t"," ","a"," ","t","i","m","e">>), Number(1)) >> >>

ProbeObs(tmc, tstamp, seconds) ==
    [tmc_code |-> tmc, measurement_tstamp |-> tstamp, travel_time_seconds |-> seconds]

ProbeUniverse ==
    << ProbeObs(<<"T","1">>, PyStr(<<"2","0","2","3","-","1","0","-","0","1"," ","0","9",":","0","0",":","0","0">>), Number(250)),
       ProbeObs(<<"T","1">>, PyStr(<<"2","0","2","3","-","1","0","-","0","1","T","0","8",":","0","0",":","0","0",".","0","0","0","0","0","0","-","0","8",":","0","0">>), Number(250)),
       ProbeObs(<<"T","2">>, PyStr(<<"2","0","2","3","-","1","2","-","3","1"," ","2","3",":","5","9",":","5","9">>), Number(100)),
       ProbeObs(<<"T","1">>, PyNaN, Number(120)),
       ProbeObs(<<"T","2">>, PyStr(<<"2","0","2","3","-","0","9","-","3","0"," ","2","3",":","5","9",":","5","9",".","9","9","9","9","9","9">>), Number(90)) >>

MergeInit ==
    /\ CatIdle /\ DirIdle /\ TsIdle /\ XwIdle
    /\ \E L \in SUBSET DOMAIN LinkUniverse,
          F1 \in SUBSET DOMAIN DetectorFiles_bound_1,
          F2 \in SUBSET DOMAIN DetectorFiles_bound_2,
          P \in SUBSET DOMAIN ProbeUniverse :
         mIn = [crosswalk |-> PickFrom(LinkUniverse, L, 1),
                bound_1_files |-> PickFrom(DetectorFiles_bound_1, F1, 1),
                bound_2_files |-> PickFrom(DetectorFiles_bound_2, F2, 1),
                inrix |-> PickFrom(ProbeUniverse, P, 1)]
    /\ mPc = "start"
    /\ sjoined_portal_inrix_df = <<>>
    /\ portal_data_df = <<>>
    /\ inrix_data_df = <<>>
    /\ portal_inrix_meta_df_filtered = <<>>
    /\ inrix_data_filtered_df = <<>>
    /\ portal_data_filtered_df = <<>>
    /\ inrix_enriched = <<>>
    /\ merged_df = <<>>

MergeNext ==
    \/ LoadCrosswalk \/ LoadPortal \/ LoadInrix \/ FilterMeta
    \/ FilterInrix \/ FilterPortal \/ EnrichInrix \/ Merge

SpecMerge == MergeInit /\ [][MergeNext]_vars

\* ---------------------------------------------------------------------------
\* Claims about the temporal merge
\* ---------------------------------------------------------------------------

InWindow(t, lo, hi) ==
    /\ ~t.nat
    /\ (t.sec > lo.sec \/ (t.sec = lo.sec /\ t.micro >= lo.micro))
    /\ (t.sec < hi.sec \/ (t.sec = hi.sec /\ t.micro <= hi.micro))

\* the triples (detector observation, probe observation, crosswalk link) that
\* the merged output owes a row to
Triples ==
    {t \in (DOMAIN portal_data_df) \X (DOMAIN inrix_data_df)
               \X (DOMAIN sjoined_portal_inrix_df) :
        LET d == portal_data_df[t[1]]
            p == inrix_data_df[t[2]]
            x == sjoined_portal_inrix_df[t[3]]
        IN  /\ x.Tmc = p.tmc_code /\ x.stationid = d.stationid
            /\ ~d.starttime.nat /\ d.starttime = p.measurement_tstamp
            /\ InWindow(d.starttime, start_dt, end_dt)
            /\ p.tmc_code \in tmcs_of_interest
            /\ d.stationid \in station_ids_of_interest}

TripleRow(t) ==
    LET d == portal_data_df[t[1]]
        p == inrix_data_df[t[2]]
    IN  <<d.stationid, d.starttime, d.stationtt,
          p.tmc_code, p.measurement_tstamp, p.travel_time_seconds>>

MergedRow(n) ==
    LET r == merged_df[n]
    IN  <<r.stationid, r.starttime, r.stationtt,
          r.Tmc, r.measurement_tstamp, r.travel_time_seconds>>

\* C7: once the merge has run, the merged output holds exactly one row for
\* each triple of a detector observation, a probe observation and a crosswalk
\* link between the probe's segment and the detector's station, where the two
\* observations are at the same instant inside the window and both
\* identifiers are in the interest sets of the filtered crosswalk; it holds no
\* other row, so none with differing timestamps and none for an unlinked pair.
C7_MergedRowsAreTheTriples ==
    mPc = "done" =>
        /\ \A n \in DOMAIN merged_df :
               /\ merged_df[n].starttime = merged_df[n].measurement_tstamp
               /\ merged_df[n].tmc_code = merged_df[n].Tmc
        /\ \A row \in {MergedRow(n) : n \in DOMAIN merged_df}
                         \cup {TripleRow(t) : t \in Triples} :
               Cardinality({n \in DOMAIN merged_df : MergedRow(n) = row})
                   = Cardinality({t \in Triples : TripleRow(t) = row})

\* a run whose merged output has a row through a link that is not in the
\* filtered crosswalk, the same row twice through two links of one pair, and
\* a detector observation inside the window that finds no probe observation
C7_Witness ==
    /\ mPc = "done"
    /\ \E n \in DOMAIN merged_df :
           /\ merged_df[n].stationid = <<"1","0","0","2">>
           /\ merged_df[n].Tmc = <<"T","1">>
           /\ \A i \in DOMAIN portal_inrix_meta_df_filtered :
                  ~(/\ portal_inrix_meta_df_filtered[i].Tmc = <<"T","1">>
                    /\ portal_inrix_meta_df_filtered[i].stationid = <<"1","0","0","2">>)
    /\ \E n, k \in DOMAIN merged_df : n # k /\ merged_df[n] = merged_df[k]
    /\ \E i \in DOMAIN portal_data_filtered_df :
           \A n \in DOMAIN merged_df :
               merged_df[n].starttime # portal_data_filtered_df[i].starttime
    /\ \E i \in DOMAIN portal_data_df, j \in DOMAIN inrix_data_df :
           /\ portal_data_df[i].stationid = <<"1","0","0","1">>
           /\ inrix_data_df[j].tmc_code = <<"T","1">>
           /\ portal_data_df[i].starttime # inrix_data_df[j].measurement_tstamp
           /\ portal_data_df[i] \in Range(portal_data_filtered_df)
           /\ inrix_data_df[j] \in Range(inrix_data_filtered_df)

\* the window of lines 41-58 as instants: 2023-10-01T07:00:00Z and
\* 2024-01-01T07:59:59Z
WindowStart == Instant(SecondsOfCivil(2023, 10, 1, 7, 0, 0), 0)
WindowEnd == Instant(SecondsOfCivil(2024, 1, 1, 7, 59, 59), 0)

\* C9: each window filter keeps exactly the observations whose identifier is
\* in that dataset's interest set and whose timestamp t has
\* start <= t <= end; an observation at the start or at the end is kept, one
\* a microsecond outside is dropped, one with a null timestamp is dropped.
C9_WindowFilter ==
    /\ mPc \in {"inrix filtered", "portal filtered", "enriched", "done"} =>
           inrix_data_filtered_df =
               SelectSeq(inrix_data_df,
                         LAMBDA r : /\ r.tmc_code \in tmcs_of_interest
                                    /\ InWindow(r.measurement_tstamp,
                                                WindowStart, WindowEnd))
    /\ mPc \in {"portal filtered", "enriched", "done"} =>
           portal_data_filtered_df =
               SelectSeq(portal_data_df,
                         LAMBDA r : /\ r.stationid \in station_ids_of_interest
                                    /\ InWindow(r.starttime, WindowStart, WindowEnd))

OneMicro(t, delta) ==
    IF delta = -1
    THEN (IF t.micro = 0 THEN Instant(t.sec - 1, 999999) ELSE Instant(t.sec, t.micro - 1))
    ELSE (IF t.micro = 999999 THEN Instant(t.sec + 1, 0) ELSE Instant(t.sec, t.micro + 1))

\* both filters have run on observations at the start, at the end, one
\* microsecond outside either, and with a null timestamp, all with
\* identifiers of interest, and on one inside the window whose identifier is
\* of no interest
C9_Witness ==
    /\ mPc = "portal filtered"
    /\ \E i \in DOMAIN portal_data_df :
           /\ portal_data_df[i].starttime = WindowStart
           /\ portal_data_df[i] \in Range(portal_data_filtered_df)
    /\ \E i \in DOMAIN portal_data_df :
           /\ portal_data_df[i].starttime = WindowEnd
           /\ portal_data_df[i] \in Range(portal_data_filtered_df)
    /\ \E i \in DOMAIN portal_data_df :
           /\ portal_data_df[i].starttime = OneMicro(WindowStart, -1)
           /\ portal_data_df[i].stationid \in station_ids_of_interest
           /\ portal_data_df[i] \notin Range(portal_data_filtered_df)
    /\ \E i \in DOMAIN portal_data_df :
           /\ portal_data_df[i].starttime = OneMicro(WindowEnd, 1)
           /\ portal_data_df[i].stationid \in station_ids_of_interest
           /\ portal_data_df[i] \notin Range(portal_data_filtered_df)
    /\ \E i \in DOMAIN portal_data_df :
           /\ portal_data_df[i].starttime = NaT
           /\ portal_data_df[i].stationid \in station_ids_of_interest
           /\ portal_data_df[i] \notin Range(portal_data_filtered_df)
    /\ \E j \in DOMAIN inrix_data_df :
           /\ inrix_data_df[j].measurement_tstamp = WindowEnd
           /\ inrix_data_df[j] \in Range(inrix_data_filtered_df)
    /\ \E j \in DOMAIN inrix_data_df :
           /\ inrix_data_df[j].measurement_tstamp = OneMicro(WindowStart, -1)
           /\ inrix_data_df[j].tmc_code \in tmcs_of_interest
           /\ inrix_data_df[j] \notin Range(inrix_data_filtered_df)
    /\ \E j \in DOMAIN inrix_data_df :
           /\ inrix_data_df[j].measurement_tstamp = NaT
           /\ inrix_data_df[j].tmc_code \in tmcs_of_interest
           /\ inrix_data_df[j] \notin Range(inrix_data_filtered_df)
    /\ \E i \in DOMAIN portal_data_df :
           /\ portal_data_df[i].stationid \notin station_ids_of_interest
           /\ InWindow(portal_data_df[i].starttime, WindowStart, WindowEnd)
           /\ portal_data_df[i] \notin Range(portal_data_filtered_df)

AllDetectorRows == Flatten(mIn.bound_1_files) \o Flatten(mIn.bound_2_files)

\* the instant a timestamp text denotes: by its offset when it carries one,
\* otherwise as wall time of America/Los_Angeles
DenotedInstant(cell) ==
    LET p == ParseTimestamp(cell.chars)
    IN  IF p.aware THEN Instant(p.sec, p.micro)
        ELSE Instant(tz_localize(p.sec), p.micro)

ValidTimestampText(cell) ==
    /\ cell.kind = "str"
    /\ ParseTimestamp(cell.chars).ok
    /\ ParseTimestamp(cell.chars).aware \/ ~NonExistent(ParseTimestamp(cell.chars).sec)

LinkActiveOnRoute(x) ==
    MetaMask([Tmc |-> x.Tmc, stationid |-> x.stationid, RoadNumb_1 |-> x.RoadNumb_1,
              start_date |-> ParseAwareCell(x.start_date),
              end_date |-> ParseAwareCell(x.end_date)])

MergeEnded == mPc \in {"done", "ValueError", "TypeError", "NonExistentTimeError"}

\* C8: end to end, when there are detector files for both bounds and every
\* probe timestamp is the text of an existing time or missing, a detector row
\* of m minutes and a probe row of p seconds that denote the same instant
\* inside the window, in whatever offset notation, with a crosswalk row
\* linking their identifiers that is active in the year and on the route,
\* make the script end with a merged row of 60*m seconds, p seconds and
\* discrepancy 60*m - p.
C8_EndToEnd ==
    \A i \in DOMAIN AllDetectorRows, j \in DOMAIN mIn.inrix, k \in DOMAIN mIn.crosswalk :
        LET d == AllDetectorRows[i]
            p == mIn.inrix[j]
            x == mIn.crosswalk[k]
        IN  (/\ MergeEnded
             /\ mIn.bound_1_files # <<>> /\ mIn.bound_2_files # <<>>
             /\ \A n \in DOMAIN mIn.inrix :
                    \/ mIn.inrix[n].measurement_tstamp.kind # "str"
                    \/ ValidTimestampText(mIn.inrix[n].measurement_tstamp)
             /\ ValidTimestampText(d.starttime) /\ ParseTimestamp(d.starttime.chars).aware
             /\ ValidTimestampText(p.measurement_tstamp)
             /\ DenotedInstant(d.starttime) = DenotedInstant(p.measurement_tstamp)
             /\ InWindow(DenotedInstant(d.starttime), WindowStart, WindowEnd)
             /\ x.Tmc = p.tmc_code /\ x.stationid = d.stationid
             /\ LinkActiveOnRoute(x)
             /\ ~d.stationtt.na /\ ~p.travel_time_seconds.na)
            => /\ mPc = "done"
               /\ \E n \in DOMAIN merged_df :
                      /\ merged_df[n].stationid = d.stationid
                      /\ merged_df[n].Tmc = p.tmc_code
                      /\ merged_df[n].starttime = DenotedInstant(d.starttime)
                      /\ merged_df[n].stationtt = Number(60 * d.stationtt.v)
                      /\ merged_df[n].travel_time_seconds = p.travel_time_seconds
                      /\ merged_df[n].diff =
                             Number(60 * d.stationtt.v - p.travel_time_seconds.v)

\* ---------------------------------------------------------------------------
\* The geometry decoding of stations.csv on its own (lines 67-76, 99-104)
\* ---------------------------------------------------------------------------

\* texts a geometry cell can hold
CorruptHex == <<"0","1","z","z","0","0","0","0","0","0">>
OddHex == <<"0","1","0">>
TruncatedPoint == <<"0","1","0","1","0","0","0","0","0","0","0","0","0","0","0","0","0","0">>
UnknownType == <<"0","1","6","3","0","0","0","0","0","0">>
SpacedPointHex == <<" ">> \o SubSeq(PointHex, 1, 2) \o <<" ">>
                      \o SubSeq(PointHex, 3, Len(PointHex)) \o <<"\n">>
\* big-endian EWKB point with SRID 4326
SridPointHex == <<"0","0","2","0","0","0","0","0","0","1","0","0","0","0","1","0","e","6">> \o SubSeq(PointHex, 11, Len(PointHex))
\* little-endian line string of two points
LineHex == <<"0","1","0","2","0","0","0","0","0","0","0","2","0","0","0","0","0","0">> \o SubSeq(PointHex, 11, Len(PointHex))
               \o SubSeq(PointHex, 11, Len(PointHex))
\* the same line string declaring three points
ShortLineHex == <<"0","1","0","2","0","0","0","0","0","0","0","3","0","0","0","0","0","0">> \o SubSeq(PointHex, 11, Len(PointHex))
                    \o SubSeq(PointHex, 11, Len(PointHex))

DecodeCells ==
    << NaNCell, Cell(<<>>, {}), BlankCell, Cell(CorruptHex, {}), Cell(OddHex, {}),
       Cell(TruncatedPoint, {}), Cell(UnknownType, {}), HexCell({101}),
       Cell(SpacedPointHex, {102}), Cell(SridPointHex, {103}),
       Cell(LineHex, {104, 105}), Cell(ShortLineHex, {}) >>

MaxStationRows == 2

DecodeInit ==
    /\ CatIdle /\ DirIdle /\ TsIdle /\ MgIdle
    /\ \E n \in 1..MaxStationRows :
         \E seg \in [1..n -> DOMAIN DecodeCells], sta \in [1..n -> {1, 8}] :
            xIn = [stations |-> [i \in 1..n |->
                                    [stationid |-> <<"S1", "S2", "S3", "S4">>[i],
                                     highwayid |-> 1,
                                     segment_geom |-> DecodeCells[seg[i]],
                                     station_geom |-> DecodeCells[sta[i]]]],
                   highways |-> HighwayTable,
                   oregon |-> <<>>, clark |-> <<>>, tmc_identification |-> <<>>]
    /\ xPc = "start"
    /\ portal_stations_df = <<>>
    /\ inrix_full_df = <<>>
    /\ inrix_filtered_by_tmc = <<>>
    /\ portal_inrix_spatial_join = <<>>

DecodeNext == DecodeGeometry

SpecDecode == DecodeInit /\ [][DecodeNext]_vars

\* the texts that are a well-formed payload
WellFormedCells == {8, 9, 10, 11}

\* C11: decoding the geometry columns never raises: whatever the cells hold
\* (nothing, an empty or blank text, text that is not hexadecimal, hexadecimal
\* text that is no well-formed WKB, a well-formed payload), the decoding ends
\* with every row decoded, to the geometry of a well-formed payload and to
\* null for every other cell.
C11_DecodeNeverRaises ==
    xPc # "start" =>
        /\ xPc = "decoded"
        /\ Len(portal_stations_df) = Len(xIn.stations)
        /\ \A i \in DOMAIN xIn.stations :
               portal_stations_df[i].segment_geom =
                   IF \E k \in WellFormedCells : xIn.stations[i].segment_geom = DecodeCells[k]
                   THEN xIn.stations[i].segment_geom.geom
                   ELSE NoGeom

\* ---------------------------------------------------------------------------
\* The crosswalk filter for any route and year (lines 34-37 edited, then
\* lines 101-125 and 196-222)
\* ---------------------------------------------------------------------------

RouteNames == {<<"I","2","0","5">>, <<"I","5">>, <<"S","R","1","4">>}
RequestedYears == {2022, 2023, 2024}

FilterLinkUniverse ==
    LinkUniverse \o
    << LinkRow(<<"T","3">>, <<"1","0","0","4">>, <<"I","2","0","5">>, PyStr(<<"2","0","1","5","-","0","1","-","0","1"," ","0","0",":","0","0",":","0","0","-","0","8">>), PyNaN),
       LinkRow(<<"T","3">>, <<"1","0","0","5">>, <<"I","-","2","0","5">>, PyNaN, PyNaN),
       LinkRow(<<"T","4">>, <<"1","0","0","6">>, <<"S","R","-","1","4">>, PyStr(<<"2","0","2","2","-","1","2","-","3","1"," ","2","3",":","5","9",":","5","9","-","0","8">>),
               PyStr(<<"u","n","k","n","o","w","n">>)) >>

FilterInit ==
    /\ CatIdle /\ DirIdle /\ TsIdle /\ XwIdle
    /\ \E L \in SUBSET DOMAIN FilterLinkUniverse, name \in RouteNames,
          y \in RequestedYears :
         mIn = [crosswalk |-> PickFrom(FilterLinkUniverse, L, 1),
                bound_1_files |-> <<>>, bound_2_files |-> <<>>, inrix |-> <<>>,
                route_name |-> name, year |-> y]
    /\ mPc = "start"
    /\ sjoined_portal_inrix_df = <<>>
    /\ portal_data_df = <<>>
    /\ inrix_data_df = <<>>
    /\ portal_inrix_meta_df_filtered = <<>>
    /\ inrix_data_filtered_df = <<>>
    /\ portal_data_filtered_df = <<>>
    /\ inrix_enriched = <<>>
    /\ merged_df = <<>>

\* lines 196-205 of the script run for mIn.route_name and mIn.year
FilterMetaFor ==
    /\ mPc = "crosswalk"
    /\ portal_inrix_meta_df_filtered' =
           SelectSeq(sjoined_portal_inrix_df,
                     LAMBDA r : meta_mask(r, HyphenateFrom(mIn.route_name, 1), mIn.year))
    /\ mPc' = "meta"
    /\ UNCHANGED <<mIn, sjoined_portal_inrix_df, portal_data_df, inrix_data_df,
                   inrix_data_filtered_df, portal_data_filtered_df, inrix_enriched,
                   merged_df>>
    /\ UNCHANGED <<catVars, dirVars, tsVars, xwVars>>

FilterNext == LoadCrosswalk \/ FilterMetaFor

SpecFilter == FilterInit /\ [][FilterNext]_vars

\* letters, hyphen, digits
FormattedRoute(name) ==
    CASE name = <<"I","2","0","5">> -> <<"I","-","2","0","5">>
      [] name = <<"I","5">> -> <<"I","-","5">>
      [] name = <<"S","R","1","4">> -> <<"S","R","-","1","4">>

\* the year of an instant on the Los Angeles calendar: the year y whose
\* first local midnight (08:00 UTC on 1 January) is the last one not after it
CalendarYear(t) ==
    CHOOSE y \in 2000..2030 :
        /\ SecondsOfCivil(y, 1, 1, 8, 0, 0) <= t.sec
        /\ t.sec < SecondsOfCivil(y + 1, 1, 1, 8, 0, 0)

Covers(r, y) ==
    /\ ~r.start_date.nat /\ CalendarYear(r.start_date) <= y
    /\ r.end_date.nat \/ CalendarYear(r.end_date) >= y

\* C12: the filter keeps a crosswalk row exactly when its road identifier is
\* the formatted route name and its active dates cover the requested year:
\* year(start_date) <= year and (end_date is null or year(end_date) >= year),
\* years taken on the Los Angeles calendar the dates are converted to; the
\* two interest sets are the segment ids and the station ids of the kept rows.
C12_CrosswalkFilter ==
    mPc = "meta" =>
        /\ portal_inrix_meta_df_filtered =
               SelectSeq(sjoined_portal_inrix_df,
                         LAMBDA r : /\ r.RoadNumb_1 = FormattedRoute(mIn.route_name)
                                    /\ Covers(r, mIn.year))
        /\ tmcs_of_interest =
               {sjoined_portal_inrix_df[i].Tmc : i \in
                   {k \in DOMAIN sjoined_portal_inrix_df :
                       /\ sjoined_portal_inrix_df[k].RoadNumb_1 = FormattedRoute(mIn.route_name)
                       /\ Covers(sjoined_portal_inrix_df[k], mIn.year)}}
        /\ station_ids_of_interest =
               {sjoined_portal_inrix_df[i].stationid : i \in
                   {k \in DOMAIN sjoined_portal_inrix_df :
                       /\ sjoined_portal_inrix_df[k].RoadNumb_1 = FormattedRoute(mIn.route_name)
                       /\ Covers(sjoined_portal_inrix_df[k], mIn.year)}}

\* the filter for I205 and 2024 on the whole universe: the open-ended links
\* that started in 2015 and at 2024-01-01T03:00Z and the one ending in 2024
\* are kept; the link that ended in 2022, the links of other roads, the one
\* spelled I205 and the one without a start date are dropped
C12_Witness ==
    /\ mPc = "meta"
    /\ mIn.route_name = <<"I","2","0","5">> /\ mIn.year = 2024
    /\ Len(sjoined_portal_inrix_df) = Len(FilterLinkUniverse)
    /\ portal_inrix_meta_df_filtered =
           <<sjoined_portal_inrix_df[1], sjoined_portal_inrix_df[3],
             sjoined_portal_inrix_df[4]>>
    /\ sjoined_portal_inrix_df[1].end_date = NaT
    /\ tmcs_of_interest = {<<"T","1">>, <<"T","2">>}
    /\ station_ids_of_interest = {<<"1","0","0","1">>, <<"1","0","0","2">>}

\* ---------------------------------------------------------------------------
\* Determinism of the catalog build
\* ---------------------------------------------------------------------------

\* C13: the catalog a build leaves is the one every listing order of the same
\* tree gives: the same data and metadata path for every probe year, the same
\* file list in the same order for every detector bucket, with at most one
\* data and one metadata path per year.
C13_BuildDeterministic ==
    (status = "built" /\ query = NoQuery) =>
        \A order \in Perms(tree.entries) :
            /\ cat.inrix_data_files = _setup_inrix_data_files(tree, order, cat.years)
            /\ cat.portal_data_files = _setup_portal_data_files(tree, order, cat.years)
            /\ \A y \in DOMAIN cat.inrix_data_files :
                   DOMAIN cat.inrix_data_files[y] \subseteq {"data", "meta"}

====
